---- MODULE Spec2Model ----
(***************************************************************************)
(* Model of the RcSwitchReceiver edge decoder (src/src/internal/RcSwitch.cpp *)
(* and RcSwitch.hpp): the two hand-written protocol tables, the pulse       *)
(* classifier, the candidate collector, the bounded containers and the      *)
(* receiver state machine driven by edge interrupts and main-loop calls.    *)
(***************************************************************************)
EXTENDS Integers, Sequences, FiniteSets, TLC

(***************************************************************************)
(* uint32_t values.  TLC integers are 32 bit signed, so a uint32_t is kept  *)
(* as two 16 bit limbs <<high, low>>; arithmetic is modulo 2^32.            *)
(***************************************************************************)
Limb == 256 * 256

U32(n) == <<n \div Limb, n % Limb>>

Add32(a, b) ==
  LET lo == a[2] + b[2]
      hi == a[1] + b[1] + (lo \div Limb)
  IN  <<hi % Limb, lo % Limb>>

\* a difference that is cut off at zero instead of wrapping around
Sub32CutOff(a, b) ==
  IF a[1] < b[1] \/ (a[1] = b[1] /\ a[2] < b[2]) THEN <<0, 0>>
  ELSE LET lo == a[2] - b[2]
           borrow == IF lo < 0 THEN 1 ELSE 0
       IN  <<a[1] - b[1] - borrow, (lo + Limb) % Limb>>

Sub32(a, b) ==
  LET lo == a[2] - b[2]
      borrow == IF lo < 0 THEN 1 ELSE 0
      hi == a[1] - b[1] - borrow
  IN  <<(hi + Limb) % Limb, (lo + Limb) % Limb>>

Lt32(a, b) == a[1] < b[1] \/ (a[1] = b[1] /\ a[2] < b[2])

(***************************************************************************)
(* Constants of RcSwitch.hpp                                               *)
(***************************************************************************)
MAX_PROTOCOL_CANDIDATES == 7
MIN_MSG_PACKET_BITS == 6
MAX_MSG_PACKET_BITS == 32
DATA_PULSES_PER_BIT == 2

NORMAL_LEVEL_PROTOCOLS == 0
INVERSE_LEVEL_PROTOCOLS == 1
UNKNOWN_PROTOCOL == -1

(***************************************************************************)
(* struct TimeRange, PulsePairTiming, Protocol and the two tables           *)
(***************************************************************************)
TimeRange(lower, upper) == [lowerBound |-> U32(lower), upperBound |-> U32(upper)]

PulsePairTiming(lo, hi) ==
  [durationLowLevelPulse |-> TimeRange(lo[1], lo[2]),
   durationHighLevelPulse |-> TimeRange(hi[1], hi[2])]

Protocol(n, synch, log0, log1) ==
  [protocolNumber |-> n,
   synchronizationPulsePair |-> PulsePairTiming(synch[1], synch[2]),
   logical0PulsePair |-> PulsePairTiming(log0[1], log0[2]),
   logical1PulsePair |-> PulsePairTiming(log1[1], log1[2])]

normalLevelProtocolsTable == <<
  Protocol( 7, << <<7440, 11160>>, <<240, 360>> >>, << <<720, 1080>>, <<120, 180>> >>, << <<120, 180>>, <<720, 1080>> >>),
  Protocol( 1, << <<8680, 13020>>, <<280, 420>> >>, << <<840, 1260>>, <<280, 420>> >>, << <<280, 420>>, <<840, 1260>> >>),
  Protocol( 4, << <<1824, 2736>>, <<304, 456>> >>, << <<912, 1368>>, <<304, 456>> >>, << <<304, 456>>, <<912, 1368>> >>),
  Protocol( 8, << <<20800, 31200>>, <<480, 720>> >>, << <<2560, 3840>>, <<1120, 1680>> >>, << <<2560, 3840>>, <<480, 720>> >>),
  Protocol( 2, << <<5200, 7800>>, <<520, 780>> >>, << <<1040, 1560>>, <<520, 780>> >>, << <<520, 780>>, <<1040, 1560>> >>),
  Protocol( 5, << <<5600, 8400>>, <<2400, 3600>> >>, << <<800, 1200>>, <<400, 600>> >>, << <<400, 600>>, <<800, 1200>> >>),
  Protocol( 3, << <<5680, 8520>>, <<2400, 3600>> >>, << <<880, 1320>>, <<320, 480>> >>, << <<480, 720>>, <<720, 1080>> >>)
>>

inverseLevelProtocolsTable == <<
  Protocol(13, << <<216, 324>>, <<7776, 11664>> >>, << <<216, 324>>, <<432, 648>> >>, << <<432, 648>>, <<216, 324>> >>),
  Protocol(11, << <<256, 384>>, <<9216, 13824>> >>, << <<256, 384>>, <<512, 768>> >>, << <<512, 768>>, <<256, 384>> >>),
  Protocol(10, << <<292, 438>>, <<5256, 7884>> >>, << <<876, 1314>>, <<292, 438>> >>, << <<292, 438>>, <<876, 1314>> >>),
  Protocol( 6, << <<360, 540>>, <<8280, 12420>> >>, << <<360, 540>>, <<720, 1080>> >>, << <<720, 1080>>, <<360, 540>> >>),
  Protocol( 9, << <<1120, 1680>>, <<20800, 31200>> >>, << <<2560, 3840>>, <<1120, 1680>> >>, << <<2560, 3840>>, <<480, 720>> >>)
>>

normalLevelProtocolsTableRowCount == Len(normalLevelProtocolsTable)
inverseLevelProtocolsTableRowCount == Len(inverseLevelProtocolsTable)

\* getProtocolTable: the rows of a protocol group (0-based index i is row i+1)
getProtocolTable(protocolGroupId) ==
  IF protocolGroupId = NORMAL_LEVEL_PROTOCOLS THEN normalLevelProtocolsTable
  ELSE inverseLevelProtocolsTable

(***************************************************************************)
(* TimeRange::compare.  The enum gives TOO_SHORT and TOO_LONG the same      *)
(* value, so the two outcomes are one value to every caller.                *)
(***************************************************************************)
IS_WITHIN == 0
TOO_SHORT == -1
TOO_LONG == -1

compare(range, value) ==
  IF Lt32(value, range.lowerBound) THEN TOO_SHORT
  ELSE IF ~Lt32(value, range.upperBound) THEN TOO_LONG
  ELSE IS_WITHIN

(***************************************************************************)
(* Protocol::pulseToPulseTypes for row `protocol` of group `group`          *)
(***************************************************************************)
\* a variant of synchTypeOfLowPulse that accepts IS_WITHIN only
synchTypeOfLowPulseWithinOnly(inverseLevel, synchCompare) ==
  IF synchCompare = IS_WITHIN
  THEN (IF inverseLevel THEN "SYNCH_FIRST_PULSE" ELSE "SYNCH_SECOND_PULSE")
  ELSE "UNKNOWN"

synchTypeOfLowPulse(inverseLevel, synchCompare) ==
  IF inverseLevel
  THEN IF synchCompare = IS_WITHIN \/ synchCompare = TOO_LONG
       THEN "SYNCH_FIRST_PULSE" ELSE "UNKNOWN"
  ELSE IF synchCompare = IS_WITHIN THEN "SYNCH_SECOND_PULSE" ELSE "UNKNOWN"

synchTypeOfHighPulse(inverseLevel, synchCompare) ==
  IF inverseLevel
  THEN IF synchCompare = IS_WITHIN THEN "SYNCH_SECOND_PULSE" ELSE "UNKNOWN"
  ELSE IF synchCompare = IS_WITHIN THEN "SYNCH_FIRST_PULSE" ELSE "UNKNOWN"

dataTypeOfPulse(log0Range, log1Range, value) ==
  IF compare(log0Range, value) = IS_WITHIN THEN "DATA_LOGICAL_0"
  ELSE IF compare(log1Range, value) = IS_WITHIN THEN "DATA_LOGICAL_1"
  ELSE "UNKNOWN"

pulseToPulseTypes(group, protocol, pulse) ==
  LET inverseLevel == (group = INVERSE_LEVEL_PROTOCOLS)
  IN  CASE pulse.mPulseLevel = "LO" ->
             [mPulseTypeSynch |->
                synchTypeOfLowPulse(inverseLevel,
                  compare(protocol.synchronizationPulsePair.durationLowLevelPulse,
                          pulse.mMicroSecDuration)),
              mPulseTypeData |->
                dataTypeOfPulse(protocol.logical0PulsePair.durationLowLevelPulse,
                                protocol.logical1PulsePair.durationLowLevelPulse,
                                pulse.mMicroSecDuration)]
        [] pulse.mPulseLevel = "HI" ->
             [mPulseTypeSynch |->
                synchTypeOfHighPulse(inverseLevel,
                  compare(protocol.synchronizationPulsePair.durationHighLevelPulse,
                          pulse.mMicroSecDuration)),
              mPulseTypeData |->
                dataTypeOfPulse(protocol.logical0PulsePair.durationHighLevelPulse,
                                protocol.logical1PulsePair.durationHighLevelPulse,
                                pulse.mMicroSecDuration)]
        [] OTHER -> [mPulseTypeSynch |-> "UNKNOWN", mPulseTypeData |-> "UNKNOWN"]

(***************************************************************************)
(* StackBuffer<ELEMENT_TYPE, CAPACITY>: mData holds the mSize live elements *)
(* (storage above mSize is never read), mOverflow counts dropped pushes.    *)
(***************************************************************************)
StackSize(stack) == Len(stack.mData)

\* a variant of StackPush that drops the oldest element of a full stack
StackPushDroppingOldest(stack, CAPACITY, value) ==
  IF StackSize(stack) < CAPACITY
  THEN [stack EXCEPT !.mData = Append(@, value)]
  ELSE [stack EXCEPT !.mData = Append(Tail(@), value), !.mOverflow = @ + 1]

\* a push that stores nothing when the stack is full and does not count it
StackPushNotCounting(stack, CAPACITY, value) ==
  IF StackSize(stack) < CAPACITY
  THEN [stack EXCEPT !.mData = Append(@, value)]
  ELSE stack

\* a push that tests the size after the element is stored
StackPushOneBeyond(stack, CAPACITY, value) ==
  IF StackSize(stack) <= CAPACITY
  THEN [stack EXCEPT !.mData = Append(@, value)]
  ELSE [stack EXCEPT !.mOverflow = @ + 1]

StackPush(stack, CAPACITY, value) ==
  IF StackSize(stack) < CAPACITY
  THEN [stack EXCEPT !.mData = Append(@, value)]
  ELSE [stack EXCEPT !.mOverflow = @ + 1]

\* a remove that takes the top element whatever the index is
StackRemoveTop(stack, index) ==
  IF index < StackSize(stack)
  THEN [stack EXCEPT !.mData = SubSeq(@, 1, Len(@) - 1)]
  ELSE stack

StackRemove(stack, index) ==
  IF index < StackSize(stack)
  THEN [stack EXCEPT !.mData =
          SubSeq(@, 1, index) \o SubSeq(@, index + 2, Len(@))]
  ELSE stack

StackReset(stack) == [stack EXCEPT !.mData = <<>>, !.mOverflow = 0]

\* ProtocolCandidates::reset
CandidatesReset(candidates) ==
  [StackReset(candidates) EXCEPT !.mProtocolGroupId = UNKNOWN_PROTOCOL]

(***************************************************************************)
(* RingBuffer<Pulse, DATA_PULSES_PER_BIT>, the base class of Receiver.      *)
(* mData is the storage (slot k of the array is mData[k+1]).                *)
(***************************************************************************)
squashedIndex(i) == (i + DATA_PULSES_PER_BIT) % DATA_PULSES_PER_BIT

beyondTop(r) == squashedIndex(r.mBegin + r.mSize)

at(r, index) == r.mData[squashedIndex(r.mBegin + index) + 1]

Pulse(duration, level) == [mMicroSecDuration |-> duration, mPulseLevel |-> level]

(***************************************************************************)
(* The receiver as a record r of its members.  Wr is one assignment to a    *)
(* member; r.writes lists the members in the order the running call has     *)
(* assigned them.                                                          *)
(***************************************************************************)
Wr(r, member, value) ==
  [r EXCEPT ![member] = value, !.writes = Append(@, member)]

\* RingBuffer::selectNext
selectNext(r) ==
  IF r.mSize < DATA_PULSES_PER_BIT
  THEN Wr(r, "mSize", r.mSize + 1)
  ELSE Wr(r, "mBegin", squashedIndex(r.mBegin + r.mSize + 1))

\* Receiver::push
levelOfPulse(pinLevel) == IF pinLevel # 0 THEN "LO" ELSE "HI"

push(r, microSecDuration, pinLevel) ==
  selectNext(Wr(r, "mData",
     [r.mData EXCEPT ![beyondTop(r) + 1] =
        Pulse(microSecDuration, levelOfPulse(pinLevel))]))

\* RingBuffer::reset
RingReset(r) == Wr(Wr(r, "mSize", 0), "mBegin", 0)

\* Receiver::state
state(r) ==
  IF r.mMessageAvailable THEN "AVAILABLE_STATE"
  ELSE IF StackSize(r.mProtocolCandidates) # 0 THEN "DATA_STATE"
  ELSE "SYNC_STATE"

(***************************************************************************)
(* collectNormalLevelProtocolCandidates / collectInverseLevel...            *)
(***************************************************************************)
\* a scan that stops on the lower bound of the low level pulse instead
normalScanStopsOnLowLevelBound(prot, pulse_0) ==
  Lt32(pulse_0.mMicroSecDuration,
       prot.synchronizationPulsePair.durationLowLevelPulse.lowerBound)

normalScanStops(prot, pulse_0) ==
  Lt32(pulse_0.mMicroSecDuration,
       prot.synchronizationPulsePair.durationHighLevelPulse.lowerBound)

normalSynchMatchesWithoutUpperBound(prot, pulse_0, pulse_1) ==
  /\ ~Lt32(pulse_1.mMicroSecDuration,
           prot.synchronizationPulsePair.durationLowLevelPulse.lowerBound)
  /\ Lt32(pulse_1.mMicroSecDuration,
          prot.synchronizationPulsePair.durationLowLevelPulse.upperBound)

normalSynchMatches(prot, pulse_0, pulse_1) ==
  /\ Lt32(pulse_0.mMicroSecDuration,
          prot.synchronizationPulsePair.durationHighLevelPulse.upperBound)
  /\ ~Lt32(pulse_1.mMicroSecDuration,
           prot.synchronizationPulsePair.durationLowLevelPulse.lowerBound)
  /\ Lt32(pulse_1.mMicroSecDuration,
          prot.synchronizationPulsePair.durationLowLevelPulse.upperBound)

inverseScanStops(prot, pulse_0) ==
  Lt32(pulse_0.mMicroSecDuration,
       prot.synchronizationPulsePair.durationLowLevelPulse.lowerBound)

inverseSynchMatches(prot, pulse_0, pulse_1) ==
  /\ ~Lt32(pulse_1.mMicroSecDuration,
           prot.synchronizationPulsePair.durationHighLevelPulse.lowerBound)
  /\ Lt32(pulse_1.mMicroSecDuration,
          prot.synchronizationPulsePair.durationHighLevelPulse.upperBound)

RECURSIVE collectNormalFrom(_, _, _, _)
collectNormalFrom(r, i, pulse_0, pulse_1) ==
  IF i >= normalLevelProtocolsTableRowCount THEN r
  ELSE LET prot == normalLevelProtocolsTable[i + 1]
       IN  IF normalScanStops(prot, pulse_0) THEN r
           ELSE IF normalSynchMatches(prot, pulse_0, pulse_1)
                THEN collectNormalFrom(
                       Wr(r, "mProtocolCandidates",
                          StackPush(r.mProtocolCandidates, MAX_PROTOCOL_CANDIDATES, i)),
                       i + 1, pulse_0, pulse_1)
                ELSE collectNormalFrom(r, i + 1, pulse_0, pulse_1)

collectNormalLevelProtocolCandidates(r, pulse_0, pulse_1) ==
  collectNormalFrom(r, 0, pulse_0, pulse_1)

RECURSIVE collectInverseFrom(_, _, _, _)
collectInverseFrom(r, i, pulse_0, pulse_1) ==
  IF i >= inverseLevelProtocolsTableRowCount THEN r
  ELSE LET prot == inverseLevelProtocolsTable[i + 1]
       IN  IF inverseScanStops(prot, pulse_0) THEN r
           ELSE IF inverseSynchMatches(prot, pulse_0, pulse_1)
                THEN collectInverseFrom(
                       Wr(r, "mProtocolCandidates",
                          StackPush(r.mProtocolCandidates, MAX_PROTOCOL_CANDIDATES, i)),
                       i + 1, pulse_0, pulse_1)
                ELSE collectInverseFrom(r, i + 1, pulse_0, pulse_1)

RECURSIVE collectInverseNumbersFrom(_, _, _, _)
collectInverseNumbersFrom(r, i, pulse_0, pulse_1) ==
  IF i >= inverseLevelProtocolsTableRowCount THEN r
  ELSE LET prot == inverseLevelProtocolsTable[i + 1]
       IN  IF inverseScanStops(prot, pulse_0) THEN r
           ELSE IF inverseSynchMatches(prot, pulse_0, pulse_1)
                THEN collectInverseNumbersFrom(
                       Wr(r, "mProtocolCandidates",
                          StackPush(r.mProtocolCandidates, MAX_PROTOCOL_CANDIDATES,
                                    prot.protocolNumber)),
                       i + 1, pulse_0, pulse_1)
                ELSE collectInverseNumbersFrom(r, i + 1, pulse_0, pulse_1)

collectInverseLevelProtocolNumbers(r, pulse_0, pulse_1) ==
  collectInverseNumbersFrom(r, 0, pulse_0, pulse_1)

collectInverseLevelProtocolCandidates(r, pulse_0, pulse_1) ==
  collectInverseFrom(r, 0, pulse_0, pulse_1)

setProtocolGroup(r, protocolGroup) ==
  Wr(r, "mProtocolCandidates",
     [r.mProtocolCandidates EXCEPT !.mProtocolGroupId = protocolGroup])

\* Receiver::collectProtocolCandidates
collectProtocolCandidates(r, pulse_0, pulse_1) ==
  IF pulse_0.mPulseLevel # pulse_1.mPulseLevel
  THEN IF pulse_0.mPulseLevel = "HI"
       THEN collectNormalLevelProtocolCandidates(
              setProtocolGroup(r, NORMAL_LEVEL_PROTOCOLS), pulse_0, pulse_1)
       ELSE IF pulse_0.mPulseLevel = "LO"
       THEN collectInverseLevelProtocolCandidates(
              setProtocolGroup(r, INVERSE_LEVEL_PROTOCOLS), pulse_0, pulse_1)
       ELSE r
  ELSE r

(***************************************************************************)
(* Receiver::analyzePulsePair.  The candidates are visited from the top     *)
(* index down; the result is <<receiver, pulse type>>.                      *)
(***************************************************************************)
isSynchPulsePair(pulseTypesFirstPulse, pulseTypesSecondPulse) ==
  /\ pulseTypesSecondPulse.mPulseTypeSynch = "SYNCH_SECOND_PULSE"
  /\ pulseTypesFirstPulse.mPulseTypeSynch = "SYNCH_FIRST_PULSE"

\* a data test that looks at the second pulse only
isDataPulsePairBySecondPulse(pulseTypesFirstPulse, pulseTypesSecondPulse) ==
  pulseTypesSecondPulse.mPulseTypeData # "UNKNOWN"

isDataPulsePair(pulseTypesFirstPulse, pulseTypesSecondPulse) ==
  /\ pulseTypesSecondPulse.mPulseTypeData = pulseTypesFirstPulse.mPulseTypeData
  /\ pulseTypesSecondPulse.mPulseTypeData # "UNKNOWN"

RECURSIVE analyzeFrom(_, _, _, _, _)
analyzeFrom(r, protocolCandidatesIndex, result, firstPulse, secondPulse) ==
  IF protocolCandidatesIndex = 0 THEN <<r, result>>
  ELSE LET index == protocolCandidatesIndex - 1
           group == r.mProtocolCandidates.mProtocolGroupId
           protocol == getProtocolTable(group)[r.mProtocolCandidates.mData[index + 1] + 1]
           pulseTypesSecondPulse == pulseToPulseTypes(group, protocol, secondPulse)
           pulseTypesFirstPulse == pulseToPulseTypes(group, protocol, firstPulse)
       IN  IF isSynchPulsePair(pulseTypesFirstPulse, pulseTypesSecondPulse)
           THEN <<r, "SYCH_PULSE">>
           ELSE IF isDataPulsePair(pulseTypesFirstPulse, pulseTypesSecondPulse)
           THEN analyzeFrom(r, index,
                  IF result = "UNKNOWN" THEN pulseTypesSecondPulse.mPulseTypeData
                  ELSE result,
                  firstPulse, secondPulse)
           ELSE analyzeFrom(
                  Wr(r, "mProtocolCandidates", StackRemove(r.mProtocolCandidates, index)),
                  index, result, firstPulse, secondPulse)

analyzePulsePair(r, firstPulse, secondPulse) ==
  analyzeFrom(r, StackSize(r.mProtocolCandidates), "UNKNOWN", firstPulse, secondPulse)

\* a retry that keeps the bits of the message packet
retryKeepingPacket(r) == RingReset(r)

\* Receiver::retry
retry(r) ==
  RingReset(Wr(r, "mReceivedMessagePacket", StackReset(r.mReceivedMessagePacket)))

\* a restart that does not look at the pulse pair again
startFromScratchNotCollecting(r, firstPulse, secondPulse) ==
  retry(Wr(r, "mProtocolCandidates", CandidatesReset(r.mProtocolCandidates)))

\* the "start from scratch" sequence of handleInterrupt (lines 405-408, 419-422)
startFromScratch(r, firstPulse, secondPulse) ==
  retry(collectProtocolCandidates(
          Wr(r, "mProtocolCandidates", CandidatesReset(r.mProtocolCandidates)),
          firstPulse, secondPulse))

\* variants of the definitions below, each with one deliberate fault
packetIsCompleteWithoutMinimum(r) == StackSize(r.mReceivedMessagePacket) >= 0

publishThenTouchPacket(r) ==
  Wr(Wr(r, "mMessageAvailable", TRUE),
     "mReceivedMessagePacket", r.mReceivedMessagePacket)

\* `mReceivedMessagePacket.size() >= MIN_MSG_PACKET_BITS` and
\* `mMessageAvailable = true` of handleInterrupt
packetIsComplete(r) == StackSize(r.mReceivedMessagePacket) >= MIN_MSG_PACKET_BITS

publishMessage(r) == Wr(r, "mMessageAvailable", TRUE)

dataBitOf(pulseType) == IF pulseType = "DATA_LOGICAL_0" THEN 0 ELSE 1

\* handleInterrupt, the body of `if(++mDataModePulseCount == 2)`
handlePulsePair(r) ==
  LET r0 == Wr(r, "mDataModePulseCount", 0)
      firstPulse == at(r0, r0.mSize - 2)
      secondPulse == at(r0, r0.mSize - 1)
      analyzed == analyzePulsePair(r0, firstPulse, secondPulse)
      r1 == analyzed[1]
      pulseType == analyzed[2]
  IN  IF pulseType = "UNKNOWN" THEN startFromScratch(r1, firstPulse, secondPulse)
      ELSE IF pulseType = "SYCH_PULSE"
      THEN IF packetIsComplete(r1) THEN publishMessage(r1)
           ELSE startFromScratch(r1, firstPulse, secondPulse)
      ELSE Wr(r1, "mReceivedMessagePacket",
              StackPush(r1.mReceivedMessagePacket, MAX_MSG_PACKET_BITS,
                        dataBitOf(pulseType)))

\* handleInterrupt, the cases of the switch on state()
decodeSynch(r) ==
  IF r.mSize > 1
  THEN collectProtocolCandidates(r, at(r, r.mSize - 2), at(r, r.mSize - 1))
  ELSE r

decodeData(r) ==
  LET r0 == Wr(r, "mDataModePulseCount", r.mDataModePulseCount + 1)
  IN  IF r0.mDataModePulseCount = 2 THEN handlePulsePair(r0) ELSE r0

\* an AVAILABLE case that goes on decoding, as the DATA case does
decodeAvailableAsData(r) == decodeData(r)

decodeAvailable(r) == r

decode(r) ==
  CASE state(r) = "SYNC_STATE" -> decodeSynch(r)
    [] state(r) = "DATA_STATE" -> decodeData(r)
    [] OTHER -> decodeAvailable(r)

\* Receiver::handleInterrupt
\* a handler that records the pulse in the ring also while suspended
handleInterruptPushingWhileSuspended(r, pinLevel, microSecInterruptTime) ==
  LET microSecDuration == Sub32(microSecInterruptTime, r.mMicrosecLastInterruptTime)
      r0 == IF ~r.mSuspended THEN decode(push(r, microSecDuration, pinLevel))
            ELSE push(r, microSecDuration, pinLevel)
  IN  Wr(r0, "mMicrosecLastInterruptTime", microSecInterruptTime)

handleInterrupt(r, pinLevel, microSecInterruptTime) ==
  LET microSecDuration == Sub32(microSecInterruptTime, r.mMicrosecLastInterruptTime)
      r0 == IF ~r.mSuspended THEN decode(push(r, microSecDuration, pinLevel)) ELSE r
  IN  Wr(r0, "mMicrosecLastInterruptTime", microSecInterruptTime)

keepAvailableFlag(r) == r

\* Receiver::reset: the member assignments it makes, in program order
\* (ProtocolCandidates::reset, StackBuffer::reset, RingBuffer::reset, then
\* the flag)
resetProgram ==
  << "mProtocolCandidates.mSize", "mProtocolCandidates.mOverflow",
     "mProtocolCandidates.mProtocolGroupId",
     "mReceivedMessagePacket.mSize", "mReceivedMessagePacket.mOverflow",
     "mSize", "mBegin",
     "mMessageAvailable" >>

\* a reset that inverts the available flag
toggleAvailableFlag(r) == Wr(r, "mMessageAvailable", ~r.mMessageAvailable)

resetAvailableFlag(r) == Wr(r, "mMessageAvailable", FALSE)

\* one assignment of Receiver::reset
resetStatement(r, name) ==
  CASE name = "mProtocolCandidates.mSize" ->
         Wr(r, "mProtocolCandidates", [r.mProtocolCandidates EXCEPT !.mData = <<>>])
    [] name = "mProtocolCandidates.mOverflow" ->
         Wr(r, "mProtocolCandidates", [r.mProtocolCandidates EXCEPT !.mOverflow = 0])
    [] name = "mProtocolCandidates.mProtocolGroupId" ->
         Wr(r, "mProtocolCandidates",
            [r.mProtocolCandidates EXCEPT !.mProtocolGroupId = UNKNOWN_PROTOCOL])
    [] name = "mReceivedMessagePacket.mSize" ->
         Wr(r, "mReceivedMessagePacket", [r.mReceivedMessagePacket EXCEPT !.mData = <<>>])
    [] name = "mReceivedMessagePacket.mOverflow" ->
         Wr(r, "mReceivedMessagePacket", [r.mReceivedMessagePacket EXCEPT !.mOverflow = 0])
    [] name = "mSize" -> Wr(r, "mSize", 0)
    [] name = "mBegin" -> Wr(r, "mBegin", 0)
    [] name = "mMessageAvailable" -> resetAvailableFlag(r)

RECURSIVE resetFrom(_, _)
resetFrom(r, n) ==
  IF n > Len(resetProgram) THEN r
  ELSE resetFrom(resetStatement(r, resetProgram[n]), n + 1)

reset(r) == resetFrom(r, 1)

\* Receiver::suspend, Receiver::resume
\* a resume that drops the suspended flag without clearing the state
resumeWithoutReset(r) == IF r.mSuspended THEN Wr(r, "mSuspended", FALSE) ELSE r

suspend(r) == Wr(r, "mSuspended", TRUE)
resume(r) == IF r.mSuspended THEN Wr(reset(r), "mSuspended", FALSE) ELSE r

\* Receiver::available, receivedBitsCount, receivedValue, receivedProtocol...
available(r) == state(r) = "AVAILABLE_STATE"

receivedBitsCount(r) ==
  IF available(r)
  THEN StackSize(r.mReceivedMessagePacket) + r.mReceivedMessagePacket.mOverflow
  ELSE 0

\* the loop of receivedValue; the test of result[1] is never true and makes
\* TLC evaluate result at every step of the loop
RECURSIVE valueOfBits(_, _, _)
valueOfBits(bits, i, result) ==
  IF i > Len(bits) \/ result[1] < 0 THEN result
  ELSE valueOfBits(bits, i + 1, Add32(Add32(result, result), <<0, bits[i]>>))

receivedValue(r) ==
  IF available(r) THEN valueOfBits(r.mReceivedMessagePacket.mData, 1, <<0, 0>>)
  ELSE <<0, 0>>

receivedProtocolCount(r) == StackSize(r.mProtocolCandidates)

getProtcolNumber(candidates, protocolCandidateIndex) ==
  getProtocolTable(candidates.mProtocolGroupId)
     [candidates.mData[protocolCandidateIndex + 1] + 1].protocolNumber

receivedProtocol(r, index) ==
  IF index < StackSize(r.mProtocolCandidates)
  THEN getProtcolNumber(r.mProtocolCandidates, index)
  ELSE -1

receivedProtocols(r) ==
  [i \in 1..receivedProtocolCount(r) |-> receivedProtocol(r, i - 1)]

(***************************************************************************)
(* State: the members of one Receiver, the member writes of the call that   *)
(* ran last, and the environment: which call ran last, how many edges the   *)
(* pin has delivered, the edges the transmitter has still to deliver        *)
(* (line), what the transmitter is sending (tx), and the number of          *)
(* assignments of resetProgram the main loop has executed of a reset() that *)
(* is running (mainPc, 0: no reset is running).                             *)
(***************************************************************************)
VARIABLES mData, mBegin, mSize, mProtocolCandidates, mReceivedMessagePacket,
          mMessageAvailable, mSuspended, mDataModePulseCount,
          mMicrosecLastInterruptTime, writes, lastCall, nEdges, line, tx,
          mainPc

rxVars == <<mData, mBegin, mSize, mProtocolCandidates, mReceivedMessagePacket,
            mMessageAvailable, mSuspended, mDataModePulseCount,
            mMicrosecLastInterruptTime, writes>>

vars == <<rxVars, lastCall, nEdges, line, tx, mainPc>>

\* the receiver at the start of a call
Rx ==
  [mData |-> mData, mBegin |-> mBegin, mSize |-> mSize,
   mProtocolCandidates |-> mProtocolCandidates,
   mReceivedMessagePacket |-> mReceivedMessagePacket,
   mMessageAvailable |-> mMessageAvailable, mSuspended |-> mSuspended,
   mDataModePulseCount |-> mDataModePulseCount,
   mMicrosecLastInterruptTime |-> mMicrosecLastInterruptTime,
   writes |-> <<>>]

\* the receiver at the end of a call
RxNext ==
  [mData |-> mData', mBegin |-> mBegin', mSize |-> mSize',
   mProtocolCandidates |-> mProtocolCandidates',
   mReceivedMessagePacket |-> mReceivedMessagePacket',
   mMessageAvailable |-> mMessageAvailable', mSuspended |-> mSuspended',
   mDataModePulseCount |-> mDataModePulseCount',
   mMicrosecLastInterruptTime |-> mMicrosecLastInterruptTime',
   writes |-> writes']

Assign(r) ==
  /\ mData' = r.mData
  /\ mBegin' = r.mBegin
  /\ mSize' = r.mSize
  /\ mProtocolCandidates' = r.mProtocolCandidates
  /\ mReceivedMessagePacket' = r.mReceivedMessagePacket
  /\ mMessageAvailable' = r.mMessageAvailable
  /\ mSuspended' = r.mSuspended
  /\ mDataModePulseCount' = r.mDataModePulseCount
  /\ mMicrosecLastInterruptTime' = r.mMicrosecLastInterruptTime
  /\ writes' = r.writes

\* Receiver::Receiver() (static storage: the pulse array is zero-initialised)
NewReceiver ==
  [mData |-> [k \in 1..DATA_PULSES_PER_BIT |-> Pulse(<<0, 0>>, "UNKNOWN")],
   mBegin |-> 0,
   mSize |-> 0,
   mProtocolCandidates |->
     [mData |-> <<>>, mOverflow |-> 0, mProtocolGroupId |-> UNKNOWN_PROTOCOL],
   mReceivedMessagePacket |-> [mData |-> <<>>, mOverflow |-> 0],
   mMessageAvailable |-> FALSE,
   mSuspended |-> FALSE,
   mDataModePulseCount |-> 0,
   mMicrosecLastInterruptTime |-> <<0, 0>>,
   writes |-> <<>>]

Constructed ==
  /\ mData = NewReceiver.mData
  /\ mBegin = NewReceiver.mBegin
  /\ mSize = NewReceiver.mSize
  /\ mProtocolCandidates = NewReceiver.mProtocolCandidates
  /\ mReceivedMessagePacket = NewReceiver.mReceivedMessagePacket
  /\ mMessageAvailable = NewReceiver.mMessageAvailable
  /\ mSuspended = NewReceiver.mSuspended
  /\ mDataModePulseCount = NewReceiver.mDataModePulseCount
  /\ mMicrosecLastInterruptTime = NewReceiver.mMicrosecLastInterruptTime
  /\ writes = NewReceiver.writes

(***************************************************************************)
(* The transmitter side, as RcSwitch_test drives it: a pulse of level L and *)
(* duration d reaches the receiver as the edge that ends it, d after the    *)
(* previous edge, with the pin then at the opposite level.                  *)
(***************************************************************************)
ToInt(u) == u[1] * Limb + u[2]

\* the nominal duration of a range of +-20 % around it
Nominal(range) == (ToInt(range.lowerBound) + ToInt(range.upperBound)) \div 2

AllProtocols ==
  {<<NORMAL_LEVEL_PROTOCOLS, i>> : i \in 0..(normalLevelProtocolsTableRowCount - 1)}
  \cup {<<INVERSE_LEVEL_PROTOCOLS, i>> : i \in 0..(inverseLevelProtocolsTableRowCount - 1)}

Row(S) == getProtocolTable(S[1])[S[2] + 1]

\* level of the first (A) and of the second (B) pulse of every pair of S
LevelA(S) == IF S[1] = NORMAL_LEVEL_PROTOCOLS THEN "HI" ELSE "LO"
LevelB(S) == IF S[1] = NORMAL_LEVEL_PROTOCOLS THEN "LO" ELSE "HI"

RangeOf(timing, level) ==
  IF level = "LO" THEN timing.durationLowLevelPulse ELSE timing.durationHighLevelPulse

\* the edge that ends a pulse: pin level after the edge is the opposite level
EdgeOf(duration, level) ==
  [duration |-> duration, pinLevel |-> IF level = "HI" THEN 0 ELSE 1]

\* the two edges of a pulse pair of S with the nominal durations of `timing`,
\* scaled by the percentages pctA and pctB
PairEdges(S, timing, pctA, pctB) ==
  << EdgeOf((Nominal(RangeOf(timing, LevelA(S))) * pctA) \div 100, LevelA(S)),
     EdgeOf((Nominal(RangeOf(timing, LevelB(S))) * pctB) \div 100, LevelB(S)) >>

SynchEdges(S) == PairEdges(S, Row(S).synchronizationPulsePair, 100, 100)

BitEdges(S, bit, pctA, pctB) ==
  PairEdges(S, IF bit = 0 THEN Row(S).logical0PulsePair ELSE Row(S).logical1PulsePair,
            pctA, pctB)

RECURSIVE DataEdges(_, _)
DataEdges(S, bits) ==
  IF bits = <<>> THEN <<>>
  ELSE BitEdges(S, Head(bits), 100, 100) \o DataEdges(S, Tail(bits))

\* the edge that starts the first pulse: it ends an idle time of B level
StartEdge(S, gap) == << EdgeOf(gap, LevelB(S)) >>

RECURSIVE BitsValue(_, _, _)
BitsValue(bits, i, result) ==
  IF i > Len(bits) \/ result[1] < 0 THEN result
  ELSE BitsValue(bits, i + 1, Add32(Add32(result, result), <<0, bits[i]>>))

RECURSIVE BitStrings(_)
BitStrings(n) ==
  IF n = 0 THEN {<<>>}
  ELSE {<<b>> \o t : b \in {0, 1}, t \in BitStrings(n - 1)}

\* deliver the next edge of the line to the interrupt handler
Deliver ==
  /\ line # <<>>
  /\ Assign(handleInterrupt(Rx, Head(line).pinLevel,
                            Add32(mMicrosecLastInterruptTime, U32(Head(line).duration))))
  /\ line' = Tail(line)
  /\ lastCall' = "handleInterrupt"
  /\ nEdges' = nEdges + 1
  /\ UNCHANGED mainPc

(***************************************************************************)
(* SpecTx: the synthesis-decode round trip.  A freshly constructed receiver *)
(* is fed the ideal edge stream of one protocol S carrying one value V:     *)
(* start edge, sync pair, the bits of V as data pairs, sync pair.           *)
(***************************************************************************)
MaxTxBits == 7

TxLongValues ==
  { [i \in 1..MAX_MSG_PACKET_BITS |-> 0],
    [i \in 1..MAX_MSG_PACKET_BITS |-> IF i = 1 \/ i = MAX_MSG_PACKET_BITS THEN 1 ELSE 0],
    [i \in 1..MAX_MSG_PACKET_BITS |-> i % 2] }

TxValues ==
  UNION {BitStrings(n) : n \in MIN_MSG_PACKET_BITS..MaxTxBits} \cup TxLongValues

StartGaps == {100, 5000}

IdealStream(S, V, gap) ==
  StartEdge(S, gap) \o SynchEdges(S) \o DataEdges(S, V) \o SynchEdges(S)

InitTx ==
  /\ Constructed
  /\ lastCall = "Receiver"
  /\ nEdges = 0
  /\ mainPc = 0
  /\ \E S \in AllProtocols, V \in TxValues, gap \in StartGaps :
        /\ tx = [protocol |-> S, bits |-> V]
        /\ line = IdealStream(S, V, gap)

TxEdge == Deliver /\ UNCHANGED tx

NextTx == TxEdge

SpecTx == InitTx /\ [][NextTx]_vars

TxDone == lastCall = "handleInterrupt" /\ line = <<>>

\* C1: when the whole ideal stream of S carrying V has been fed, a packet is
\* available, its value is V and the protocol number of S is among the
\* received protocols
RoundTrip ==
  TxDone =>
    /\ available(Rx)
    /\ receivedValue(Rx) = BitsValue(tx.bits, 1, <<0, 0>>)
    /\ \E i \in 0..(receivedProtocolCount(Rx) - 1) :
          receivedProtocol(Rx, i) = Row(tx.protocol).protocolNumber

(***************************************************************************)
(* Spec: a transmitter of protocol tx.protocol sends any sequence of sync   *)
(* pairs and data pairs with nominal durations (Send puts the two edges of  *)
(* one pair on the line, HandleInterrupt delivers the next edge); glitches  *)
(* add edges of any level at any point; the main loop calls reset, suspend  *)
(* and resume between any two edges.                                        *)
(***************************************************************************)
MaxEdges == 16
MaxGlitches == 1
MaxCalls == 1

SpecProtocols == {<<NORMAL_LEVEL_PROTOCOLS, 1>>, <<INVERSE_LEVEL_PROTOCOLS, 1>>}

GlitchDurations == {100}

Init ==
  /\ Constructed
  /\ lastCall = "Receiver"
  /\ nEdges = 0
  /\ line = <<>>
  /\ mainPc = 0
  /\ \E S \in SpecProtocols : tx = [protocol |-> S, glitches |-> 0, calls |-> 0]

Send ==
  /\ line = <<>>
  /\ nEdges + DATA_PULSES_PER_BIT <= MaxEdges
  /\ \/ line' = SynchEdges(tx.protocol)
     \/ \E bit \in {0, 1} : line' = BitEdges(tx.protocol, bit, 100, 100)
  /\ UNCHANGED <<rxVars, lastCall, nEdges, tx, mainPc>>

HandleInterrupt == Deliver /\ UNCHANGED tx

Glitch ==
  /\ tx.glitches < MaxGlitches
  /\ \E pinLevel \in {0, 1}, duration \in GlitchDurations :
        Assign(handleInterrupt(Rx, pinLevel,
                               Add32(mMicrosecLastInterruptTime, U32(duration))))
  /\ lastCall' = "handleInterrupt"
  /\ tx' = [tx EXCEPT !.glitches = @ + 1]
  /\ UNCHANGED <<nEdges, line, mainPc>>

Call(name) ==
  /\ tx.calls < MaxCalls
  /\ lastCall' = name
  /\ tx' = [tx EXCEPT !.calls = @ + 1]
  /\ UNCHANGED <<nEdges, line, mainPc>>

Reset == Call("reset") /\ Assign(reset(Rx))

Suspend == Call("suspend") /\ Assign(suspend(Rx))

Resume == Call("resume") /\ Assign(resume(Rx))

Next == Send \/ HandleInterrupt \/ Glitch \/ Reset \/ Suspend \/ Resume

Spec == Init /\ [][Next]_vars

PacketMembers ==
  {"mReceivedMessagePacket", "mProtocolCandidates", "mDataModePulseCount",
   "mData", "mBegin", "mSize"}

Publishes(log) == \E i \in DOMAIN log : log[i] = "mMessageAvailable"

\* C4: in the edge handler that publishes a packet, every write to the
\* message packet, the candidate set, the pulse count and the ring precedes
\* the write of mMessageAvailable
AvailableIsLastPacketWrite ==
  (lastCall = "handleInterrupt" /\ Publishes(writes)) =>
    \A i, j \in DOMAIN writes :
       (writes[i] = "mMessageAvailable" /\ writes[j] \in PacketMembers) => j < i

PublishingHandlerRan ==
  /\ lastCall = "handleInterrupt"
  /\ Publishes(writes)
  /\ \E j \in DOMAIN writes : writes[j] = "mDataModePulseCount"
  /\ mMessageAvailable

\* the pulse pair at the top of the ring is a sync pair for candidate k (an
\* index into the candidate stack of r)
TopPairIsSynchFor(ring, r, k) ==
  LET group == r.mProtocolCandidates.mProtocolGroupId
      protocol == getProtocolTable(group)[r.mProtocolCandidates.mData[k] + 1]
  IN  /\ pulseToPulseTypes(group, protocol, at(ring, ring.mSize - 2)).mPulseTypeSynch
            = "SYNCH_FIRST_PULSE"
      /\ pulseToPulseTypes(group, protocol, at(ring, ring.mSize - 1)).mPulseTypeSynch
            = "SYNCH_SECOND_PULSE"

PublishingEdge ==
  /\ lastCall' = "handleInterrupt"
  /\ state(Rx) = "DATA_STATE"
  /\ mDataModePulseCount = 1
  /\ StackSize(mReceivedMessagePacket) >= MIN_MSG_PACKET_BITS
  /\ mSize' = DATA_PULSES_PER_BIT
  /\ \E k \in 1..StackSize(mProtocolCandidates) :
        TopPairIsSynchFor(RxNext, Rx, k)

\* C9: available changes from false to true only on an edge that completes a
\* pulse pair which a live candidate classifies as sync, in DATA state with at
\* least MIN_MSG_PACKET_BITS bits; no step taken in SYNC state publishes
PublishOnlyOnSynchAfterData ==
  [][/\ (~mMessageAvailable /\ mMessageAvailable') => PublishingEdge
     /\ state(Rx) = "SYNC_STATE" => ~mMessageAvailable']_vars

PublishedAfterGlitch ==
  /\ available(Rx)
  /\ lastCall = "handleInterrupt"
  /\ Publishes(writes)
  /\ tx.glitches = 1

(***************************************************************************)
(* SpecPackets: a transmitter of protocol tx.protocol sends a script of     *)
(* frames, as sendMessagePacket of RcSwitch_test does: a packet frame is a  *)
(* sync pair followed by the data pairs of its bits, a synch frame is the   *)
(* sync pair that starts the next repetition, and between frames the main   *)
(* loop may call reset.  Data pair `bit` of a packet frame (0: none) and    *)
(* the pair of a synch frame have their pulses scaled by pctA and pctB.     *)
(***************************************************************************)
Frame(kind, bits, bit, pctA, pctB) ==
  [kind |-> kind, bits |-> bits, bit |-> bit, pctA |-> pctA, pctB |-> pctB]

StartFrame == Frame("start", <<>>, 0, 100, 100)
PacketFrame(bits) == Frame("packet", bits, 0, 100, 100)
FaultyFrame(bits, bit, pctA, pctB) == Frame("packet", bits, bit, pctA, pctB)
SynchFrame(pctA, pctB) == Frame("synch", <<>>, 0, pctA, pctB)
ResetFrame == Frame("reset", <<>>, 0, 100, 100)
\* a packet frame cut after the first pulse of data pair `bit`
PacketHeadFrame(bits, bit) == Frame("head", bits, bit, 100, 100)
PacketTailFrame(bits, bit) == Frame("tail", bits, bit, 100, 100)

RECURSIVE FrameDataEdges(_, _, _)
FrameDataEdges(S, f, i) ==
  IF i > Len(f.bits) THEN <<>>
  ELSE (IF i = f.bit THEN BitEdges(S, f.bits[i], f.pctA, f.pctB)
        ELSE BitEdges(S, f.bits[i], 100, 100))
       \o FrameDataEdges(S, f, i + 1)

FrameEdges(S, f) ==
  CASE f.kind = "start" -> StartEdge(S, 100)
    [] f.kind = "synch" ->
         PairEdges(S, Row(S).synchronizationPulsePair, f.pctA, f.pctB)
    [] f.kind = "packet" -> SynchEdges(S) \o FrameDataEdges(S, f, 1)
    [] f.kind = "head" ->
         SubSeq(SynchEdges(S) \o DataEdges(S, f.bits), 1, DATA_PULSES_PER_BIT * f.bit + 1)
    [] f.kind = "tail" ->
         SubSeq(SynchEdges(S) \o DataEdges(S, f.bits), DATA_PULSES_PER_BIT * f.bit + 2,
                DATA_PULSES_PER_BIT * (Len(f.bits) + 1))
    [] OTHER -> <<>>

\* validMessagePacket_A and validMessagePacket_B of RcSwitch_test, and a
\* packet of ones
PacketValues == {<<0, 1, 0, 0, 1, 1>>, <<1, 0, 1, 1, 0, 0>>, <<1, 1, 1, 1, 1, 1>>}

\* the duration factors of the faulty packets in percent; SynchPcts are factors
\* within the tolerance of the sync ranges
FaultPcts == {30, 130, 140}
SynchPcts == {81, 100, 119}

\* testDataRx: a packet, a different packet, reset, the different packet
RepeatScripts ==
  { << StartFrame, PacketFrame(V), SynchFrame(100, pct),
       PacketFrame(W), SynchFrame(100, 100), ResetFrame,
       PacketFrame(W), SynchFrame(100, 100) >> :
       V \in PacketValues, W \in PacketValues, pct \in SynchPcts }

\* testFaultyDataRx: a packet with one faulty data pair, sent once, then the
\* correct packet, repeated
FaultScripts ==
  { << StartFrame, FaultyFrame(V, bit, 100, pct), PacketFrame(V),
       SynchFrame(100, 100), ResetFrame >> :
       V \in PacketValues, bit \in 1..MIN_MSG_PACKET_BITS, pct \in FaultPcts }
  \cup
  { << StartFrame, FaultyFrame(V, bit, pct, 100), PacketFrame(V),
       SynchFrame(100, 100), ResetFrame >> :
       V \in PacketValues, bit \in 1..MIN_MSG_PACKET_BITS, pct \in FaultPcts }

\* reset is called between the two pulses of a data pair of a running
\* transmission; the packet is then sent again
ResetScripts ==
  { << StartFrame, PacketHeadFrame(V, bit), ResetFrame, PacketTailFrame(V, bit),
       PacketFrame(V), SynchFrame(100, 100) >> :
       V \in PacketValues, bit \in 1..MIN_MSG_PACKET_BITS }

PacketScripts == RepeatScripts \cup FaultScripts \cup ResetScripts

InitPackets ==
  /\ Constructed
  /\ lastCall = "Receiver"
  /\ nEdges = 0
  /\ line = <<>>
  /\ mainPc = 0
  /\ \E S \in AllProtocols, script \in PacketScripts :
        tx = [protocol |-> S, script |-> script, next |-> 1]

\* the frame the transmitter has sent last, and the one it sends next
SentFrame == tx.script[tx.next - 1]
NextFrame == tx.script[tx.next]

PacketSend ==
  /\ line = <<>>
  /\ tx.next <= Len(tx.script)
  /\ NextFrame.kind # "reset"
  /\ line' = FrameEdges(tx.protocol, NextFrame)
  /\ tx' = [tx EXCEPT !.next = @ + 1]
  /\ UNCHANGED <<rxVars, lastCall, nEdges, mainPc>>

PacketEdge == Deliver /\ UNCHANGED tx

PacketReset ==
  /\ line = <<>>
  /\ tx.next <= Len(tx.script)
  /\ NextFrame.kind = "reset"
  /\ Assign(reset(Rx))
  /\ lastCall' = "reset"
  /\ tx' = [tx EXCEPT !.next = @ + 1]
  /\ UNCHANGED <<nEdges, line, mainPc>>

NextPackets == PacketSend \/ PacketEdge \/ PacketReset

SpecPackets == InitPackets /\ [][NextPackets]_vars

\* the transmitter has sent frame number n of its script completely
FrameSent(n) == tx.next = n + 1 /\ line = <<>>

\* what the main loop reads of a held packet
HeldPacket(r) ==
  <<receivedValue(r), receivedBitsCount(r), receivedProtocols(r)>>

\* C3: while a packet is available, every step that is not a call of reset
\* leaves receivedValue, receivedBitsCount and the received protocols
\* unchanged
HeldPacketUnchangedUntilReset ==
  [][(available(Rx) /\ lastCall' # "reset") => HeldPacket(RxNext) = HeldPacket(Rx)]_vars

\* a different packet and its closing sync pair went by while the first
\* packet was held
SecondPacketIgnored ==
  /\ tx.script \in RepeatScripts
  /\ FrameSent(5)
  /\ tx.script[2].bits # tx.script[4].bits
  /\ available(Rx)
  /\ receivedValue(Rx) = BitsValue(tx.script[2].bits, 1, <<0, 0>>)

\* C6: after reset() has returned no packet is available, the candidate set
\* and the message packet are empty with overflow count 0, and the packet fed
\* after the reset is published with its own value
ResetClearsAndNextPacketIsPublished ==
  /\ lastCall = "reset" =>
        /\ ~available(Rx)
        /\ StackSize(mProtocolCandidates) = 0
        /\ StackSize(mReceivedMessagePacket) = 0
        /\ mReceivedMessagePacket.mOverflow = 0
  /\ (tx.script \in RepeatScripts /\ FrameSent(8)) =>
        /\ available(Rx)
        /\ receivedValue(Rx) = BitsValue(tx.script[7].bits, 1, <<0, 0>>)
  /\ (tx.script \in ResetScripts /\ FrameSent(6)) =>
        /\ available(Rx)
        /\ receivedValue(Rx) = BitsValue(tx.script[5].bits, 1, <<0, 0>>)

\* the receiver after the handler has run for every edge of `edges`
RECURSIVE Feed(_, _)
Feed(r, edges) ==
  IF edges = <<>> THEN r
  ELSE Feed(handleInterrupt(r, Head(edges).pinLevel,
                            Add32(r.mMicrosecLastInterruptTime,
                                  U32(Head(edges).duration))),
            Tail(edges))

\* the pulse an edge ends
PulseOf(edge) ==
  Pulse(U32(edge.duration), IF edge.pinLevel = 0 THEN "HI" ELSE "LO")

\* In a script that starts with a faulty packet: the edges before the faulty
\* data pair, the receiver after them, and the two pulses of the faulty pair
FaultyBit == tx.script[2].bit
EdgesBeforeFault ==
  FrameEdges(tx.protocol, tx.script[1])
  \o SubSeq(FrameEdges(tx.protocol, tx.script[2]), 1, DATA_PULSES_PER_BIT * FaultyBit)
BeforeFault == Feed(NewReceiver, EdgesBeforeFault)
FaultyPulse(n) ==
  PulseOf(FrameEdges(tx.protocol, tx.script[2])[DATA_PULSES_PER_BIT * FaultyBit + n])

\* pulse is outside the logical 0 and the logical 1 range of its level for
\* every candidate of r
OutsideDataRanges(r, pulse) ==
  \A k \in 1..StackSize(r.mProtocolCandidates) :
     LET protocol == getProtocolTable(r.mProtocolCandidates.mProtocolGroupId)
                        [r.mProtocolCandidates.mData[k] + 1]
     IN  /\ compare(RangeOf(protocol.logical0PulsePair, pulse.mPulseLevel),
                    pulse.mMicroSecDuration) # IS_WITHIN
         /\ compare(RangeOf(protocol.logical1PulsePair, pulse.mPulseLevel),
                    pulse.mMicroSecDuration) # IS_WITHIN

\* both pulses lie in the sync ranges of their levels
SynchRangesMatch(protocol, first, second) ==
  /\ first.mPulseLevel # second.mPulseLevel
  /\ compare(RangeOf(protocol.synchronizationPulsePair, first.mPulseLevel),
             first.mMicroSecDuration) = IS_WITHIN
  /\ compare(RangeOf(protocol.synchronizationPulsePair, second.mPulseLevel),
             second.mMicroSecDuration) = IS_WITHIN

GroupOfLevel(level) ==
  IF level = "HI" THEN NORMAL_LEVEL_PROTOCOLS ELSE INVERSE_LEVEL_PROTOCOLS

IsSynchPair(first, second) ==
  LET table == getProtocolTable(GroupOfLevel(first.mPulseLevel))
  IN  \E i \in DOMAIN table : SynchRangesMatch(table[i], first, second)

FaultCase ==
  /\ tx.script \in FaultScripts
  /\ state(BeforeFault) = "DATA_STATE"
  /\ BeforeFault.mDataModePulseCount = 0
  /\ \/ OutsideDataRanges(BeforeFault, FaultyPulse(1))
     \/ OutsideDataRanges(BeforeFault, FaultyPulse(2))

InSynchWithoutCandidates ==
  state(Rx) = "SYNC_STATE" /\ StackSize(mProtocolCandidates) = 0

FaultyPairDelivered ==
  /\ tx.next = 3
  /\ Len(line) = DATA_PULSES_PER_BIT * (Len(tx.script[2].bits) - FaultyBit)

\* C7: a data pair with a pulse outside the data ranges of every live
\* candidate discards the partial packet; if the pair is no sync pair the
\* receiver is in SYNC without candidates after it and at the end of the
\* faulty packet; the correct packet sent next is published with its value
FaultyPacketIsDiscardedAndNextDecoded ==
  FaultCase =>
    /\ FaultyPairDelivered =>
          /\ StackSize(mReceivedMessagePacket) = 0
          /\ ~IsSynchPair(FaultyPulse(1), FaultyPulse(2)) => InSynchWithoutCandidates
    /\ (FrameSent(2) /\ ~IsSynchPair(FaultyPulse(1), FaultyPulse(2))) =>
          InSynchWithoutCandidates
    /\ FrameSent(4) =>
          /\ available(Rx)
          /\ receivedValue(Rx) = BitsValue(tx.script[3].bits, 1, <<0, 0>>)

\* both pulses lie in the logical 0 ranges, or both in the logical 1 ranges
DataRangesMatch(protocol, first, second) ==
  \E timing \in {protocol.logical0PulsePair, protocol.logical1PulsePair} :
     /\ compare(RangeOf(timing, first.mPulseLevel), first.mMicroSecDuration) = IS_WITHIN
     /\ compare(RangeOf(timing, second.mPulseLevel), second.mMicroSecDuration) = IS_WITHIN

\* the protocols of the group of S whose ranges match the sync pair and every
\* data pair of the edges of a packet frame
MatchingProtocols(S, edges) ==
  LET table == getProtocolTable(S[1])
      pair(n) == <<PulseOf(edges[DATA_PULSES_PER_BIT * n - 1]),
                   PulseOf(edges[DATA_PULSES_PER_BIT * n])>>
  IN  { table[i].protocolNumber : i \in
          { i \in DOMAIN table :
              /\ SynchRangesMatch(table[i], pair(1)[1], pair(1)[2])
              /\ \A n \in 2..(Len(edges) \div DATA_PULSES_PER_BIT) :
                    DataRangesMatch(table[i], pair(n)[1], pair(n)[2]) } }

ReceivedProtocolSet(r) ==
  {receivedProtocol(r, i) : i \in 0..(receivedProtocolCount(r) - 1)}

FirstPacketHeld ==
  tx.script \in RepeatScripts /\ tx.next \in 4..6 /\ available(Rx)

\* C10: whenever a packet is available, the received protocols are exactly
\* the protocols of the group whose sync ranges match the leading sync pair
\* and whose data ranges match every data pair of the packet
CandidateSetIsExact ==
  FirstPacketHeld =>
    ReceivedProtocolSet(Rx) =
      MatchingProtocols(tx.protocol, FrameEdges(tx.protocol, tx.script[2]))

(***************************************************************************)
(* SpecSync: sync acquisition.  A freshly constructed receiver gets edges   *)
(* of any level whose pulse durations lie on and next to the bounds of the  *)
(* sync ranges of the first row of each table, or are the durations of      *)
(* testSynchRx.                                                             *)
(***************************************************************************)
MaxSyncEdges == 3

Boundaries(range) ==
  {ToInt(range.lowerBound) - 1, ToInt(range.lowerBound),
   ToInt(range.upperBound) - 1, ToInt(range.upperBound)}

SyncDurations ==
  UNION { Boundaries(RangeOf(table[1].synchronizationPulsePair, level)) :
            table \in {normalLevelProtocolsTable, inverseLevelProtocolsTable},
            level \in {"LO", "HI"} }
  \cup {100, 300, 2736, 5000, 9300}

InitSync ==
  /\ Constructed
  /\ lastCall = "Receiver"
  /\ nEdges = 0
  /\ line = <<>>
  /\ tx = <<>>
  /\ mainPc = 0

SyncEdge ==
  /\ nEdges < MaxSyncEdges
  /\ \E pinLevel \in {0, 1}, duration \in SyncDurations :
        Assign(handleInterrupt(Rx, pinLevel,
                               Add32(mMicrosecLastInterruptTime, U32(duration))))
  /\ lastCall' = "handleInterrupt"
  /\ nEdges' = nEdges + 1
  /\ UNCHANGED <<line, tx, mainPc>>

NextSync == SyncEdge

SpecSync == InitSync /\ [][NextSync]_vars

\* the two pulses of the ring after the edge
RingHoldsTwo == mSize' = DATA_PULSES_PER_BIT
FirstPulse == at(RxNext, 0)
SecondPulse == at(RxNext, 1)

\* some entry of the group selected by the level of the first pulse satisfies
\* Matches(entry, first pulse, second pulse)
SomeEntry(Matches(_, _, _)) ==
  LET table == getProtocolTable(GroupOfLevel(FirstPulse.mPulseLevel))
  IN  \E i \in DOMAIN table : Matches(table[i], FirstPulse, SecondPulse)

SecondPulseBelowEverySynchB ==
  \A S \in AllProtocols :
     Lt32(SecondPulse.mMicroSecDuration,
          RangeOf(Row(S).synchronizationPulsePair, LevelB(S)).lowerBound)

EdgeInSynchState == state(Rx) = "SYNC_STATE" /\ lastCall' = "handleInterrupt"

StaysInSynch ==
  /\ state(RxNext) = "SYNC_STATE"
  /\ StackSize(mProtocolCandidates') = 0
  /\ ~mMessageAvailable'

\* C8: after an edge in SYNC state the receiver is in DATA state if and only
\* if the ring holds two pulses that lie in the sync ranges of an entry of
\* the group selected by the level of the first pulse; a second pulse below
\* every sync-B lower bound leaves it in SYNC without candidates
DataIffSynchRangesMatch ==
  [][EdgeInSynchState =>
       /\ state(RxNext) = "DATA_STATE" <=>
             (RingHoldsTwo /\ SomeEntry(SynchRangesMatch))
       /\ (RingHoldsTwo /\ SecondPulseBelowEverySynchB) => StaysInSynch]_vars

\* the second pulse lies in the sync-B range; the first pulse lies in the
\* sync-A range (normal group: first pulse HI) or is not shorter than its
\* lower bound (inverse group: first pulse LO)
SynchAcquired(protocol, first, second) ==
  /\ first.mPulseLevel # second.mPulseLevel
  /\ compare(RangeOf(protocol.synchronizationPulsePair, second.mPulseLevel),
             second.mMicroSecDuration) = IS_WITHIN
  /\ IF first.mPulseLevel = "HI"
     THEN compare(RangeOf(protocol.synchronizationPulsePair, "HI"),
                  first.mMicroSecDuration) = IS_WITHIN
     ELSE ~Lt32(first.mMicroSecDuration,
                RangeOf(protocol.synchronizationPulsePair, "LO").lowerBound)

\* C8 as amended: as above, with the inverse group accepting every first
\* pulse that is not shorter than the sync-A lower bound
DataIffSynchAcquired ==
  [][EdgeInSynchState =>
       /\ state(RxNext) = "DATA_STATE" <=>
             (RingHoldsTwo /\ SomeEntry(SynchAcquired))
       /\ (RingHoldsTwo /\ SecondPulseBelowEverySynchB) => StaysInSynch]_vars

\* an inverse level sync was acquired with a first pulse beyond the sync-A
\* range of the acquired candidate
AcquiredWithLongFirstPulse ==
  /\ lastCall = "handleInterrupt"
  /\ nEdges = DATA_PULSES_PER_BIT
  /\ state(Rx) = "DATA_STATE"
  /\ mProtocolCandidates.mProtocolGroupId = INVERSE_LEVEL_PROTOCOLS
  /\ ~SynchRangesMatch(inverseLevelProtocolsTable[mProtocolCandidates.mData[1] + 1],
                       at(Rx, 0), at(Rx, 1))

(***************************************************************************)
(* SpecIsr: reset() against the edge interrupt.  The transmitter repeats    *)
(* one packet; once a packet is available the main loop calls reset(),      *)
(* which executes the assignments of resetProgram one at a time.  The edge  *)
(* handler runs to completion at any point between two of them.             *)
(***************************************************************************)
MaxIsrPackets == 4

IsrProtocols == {<<NORMAL_LEVEL_PROTOCOLS, 1>>, <<INVERSE_LEVEL_PROTOCOLS, 0>>}

InitIsr ==
  /\ Constructed
  /\ lastCall = "Receiver"
  /\ nEdges = 0
  /\ line = <<>>
  /\ mainPc = 0
  /\ \E S \in IsrProtocols, V \in PacketValues :
        tx = [protocol |-> S, bits |-> V, sent |-> 0]

IsrSend ==
  /\ line = <<>>
  /\ tx.sent < MaxIsrPackets
  /\ line' = SynchEdges(tx.protocol) \o DataEdges(tx.protocol, tx.bits)
  /\ tx' = [tx EXCEPT !.sent = @ + 1]
  /\ UNCHANGED <<rxVars, lastCall, nEdges, mainPc>>

IsrEdge == Deliver /\ UNCHANGED tx

\* the next assignment of a reset() of an AVAILABLE receiver
ResetStep ==
  /\ mainPc > 0 \/ available(Rx)
  /\ Assign(resetStatement(Rx, resetProgram[mainPc + 1]))
  /\ mainPc' = IF mainPc + 1 = Len(resetProgram) THEN 0 ELSE mainPc + 1
  /\ lastCall' = "reset"
  /\ UNCHANGED <<nEdges, line, tx>>

NextIsr == IsrSend \/ IsrEdge \/ ResetStep

SpecIsr == InitIsr /\ [][NextIsr]_vars

\* the step is a run of the edge handler that takes the SYNC or the DATA
\* branch of its switch
HandlerDecodes ==
  /\ nEdges' = nEdges + 1
  /\ ~mSuspended
  /\ state(Rx) \in {"SYNC_STATE", "DATA_STATE"}

\* the pulse that ended with delivered edge number n, and: the ring of r
\* holds, in order, the pulses the latest edges ended
IsrRepetition == SynchEdges(tx.protocol) \o DataEdges(tx.protocol, tx.bits)
DeliveredPulse(n) == PulseOf(IsrRepetition[((n - 1) % Len(IsrRepetition)) + 1])
RingHoldsLatestPulses(r) ==
  \A j \in 0..(r.mSize - 1) : at(r, r.mSize - 1 - j) = DeliveredPulse(nEdges - j)

\* C5: reset() assigns the candidate set, the message packet and the ring
\* before the available flag, and in every interleaving of a reset() of an
\* AVAILABLE receiver with edge interrupts every handler that takes its SYNC
\* or DATA branch finds no reset() half way and a ring that holds only the
\* pulses of the latest edges
NoDecodingOnPartiallyClearedState ==
  [][/\ (mMessageAvailable /\ ~mMessageAvailable') =>
          /\ mainPc = Len(resetProgram) - 1
          /\ StackSize(mProtocolCandidates) = 0
          /\ mProtocolCandidates.mProtocolGroupId = UNKNOWN_PROTOCOL
          /\ StackSize(mReceivedMessagePacket) = 0
          /\ mReceivedMessagePacket.mOverflow = 0
     /\ HandlerDecodes => (mainPc = 0 /\ RingHoldsLatestPulses(Rx))]_vars

(***************************************************************************)
(* SpecLong: packets longer than the message packet.  A freshly constructed *)
(* receiver is fed the ideal stream of one protocol carrying more than      *)
(* MAX_MSG_PACKET_BITS bits.                                                *)
(***************************************************************************)
MaxLongBits == 34

\* bit patterns whose first MAX_MSG_PACKET_BITS bits and whose last ones
\* differ in value
LongPatterns(n) ==
  { [i \in 1..n |-> 0],
    [i \in 1..n |-> 1],
    [i \in 1..n |-> i % 2],
    [i \in 1..n |-> IF i = 1 THEN 1 ELSE 0],
    [i \in 1..n |-> IF i > MAX_MSG_PACKET_BITS THEN 1 ELSE 0],
    [i \in 1..n |-> IF i = 1 \/ i = MAX_MSG_PACKET_BITS THEN 1 ELSE 0] }

LongValues ==
  UNION {LongPatterns(n) : n \in MAX_MSG_PACKET_BITS..MaxLongBits}

InitLong ==
  /\ Constructed
  /\ lastCall = "Receiver"
  /\ nEdges = 0
  /\ mainPc = 0
  /\ \E S \in AllProtocols, V \in LongValues :
        /\ tx = [protocol |-> S, bits |-> V]
        /\ line = IdealStream(S, V, 100)

LongEdge == Deliver /\ UNCHANGED tx

NextLong == LongEdge

SpecLong == InitLong /\ [][NextLong]_vars

\* the protocol of the transmitter classifies data pair number i of the
\* stream as a data pair
ReceivedAsDataPair(S, bits, i) ==
  LET edges == BitEdges(S, bits[i], 100, 100)
  IN  isDataPulsePair(pulseToPulseTypes(S[1], Row(S), PulseOf(edges[1])),
                      pulseToPulseTypes(S[1], Row(S), PulseOf(edges[2])))

LongPacketReceived ==
  /\ TxDone
  /\ Len(tx.bits) > MAX_MSG_PACKET_BITS
  /\ \A i \in 1..Len(tx.bits) : ReceivedAsDataPair(tx.protocol, tx.bits, i)

\* C11: when more than MAX_MSG_PACKET_BITS data pairs were received between
\* the leading and the trailing sync pair, the packet is published, its
\* value is formed from the first MAX_MSG_PACKET_BITS bits, first bit most
\* significant, and receivedBitsCount is the number of data pairs
OverflowKeepsFirstBits ==
  LongPacketReceived =>
    /\ available(Rx)
    /\ receivedValue(Rx) =
         BitsValue(SubSeq(tx.bits, 1, MAX_MSG_PACKET_BITS), 1, <<0, 0>>)
    /\ receivedBitsCount(Rx) = Len(tx.bits)

\* a packet of 33 bits whose last bit differs from the others was published
OverflowingPacketPublished ==
  /\ LongPacketReceived
  /\ Len(tx.bits) = MAX_MSG_PACKET_BITS + 1
  /\ tx.bits[MAX_MSG_PACKET_BITS + 1] = 1
  /\ tx.bits[1] = 0
  /\ available(Rx)
  /\ mReceivedMessagePacket.mOverflow = 1

(***************************************************************************)
(* SpecCollect: the candidate collector as a function of a pulse pair.      *)
(* collectProtocolCandidates is applied once to a freshly constructed       *)
(* receiver, for pulses of any levels whose durations lie on and next to    *)
(* the bounds of the sync ranges of every table row, or are ten times a     *)
(* sync-A upper bound.                                                      *)
(***************************************************************************)
CollectDurations ==
  UNION { Boundaries(RangeOf(Row(S).synchronizationPulsePair, level)) :
            S \in AllProtocols, level \in {"LO", "HI"} }
  \cup { 10 * ToInt(RangeOf(Row(S).synchronizationPulsePair, LevelA(S)).upperBound) :
            S \in AllProtocols }

InitCollect ==
  /\ Constructed
  /\ lastCall = "Receiver"
  /\ nEdges = 0
  /\ line = <<>>
  /\ mainPc = 0
  /\ \E l0 \in {"LO", "HI"}, l1 \in {"LO", "HI"},
        d0 \in CollectDurations, d1 \in CollectDurations :
        tx = [pulse_0 |-> Pulse(U32(d0), l0), pulse_1 |-> Pulse(U32(d1), l1)]

Collect ==
  /\ lastCall = "Receiver"
  /\ Assign(collectProtocolCandidates(Rx, tx.pulse_0, tx.pulse_1))
  /\ lastCall' = "collectProtocolCandidates"
  /\ UNCHANGED <<nEdges, line, tx, mainPc>>

NextCollect == Collect

SpecCollect == InitCollect /\ [][NextCollect]_vars

Collected ==
  /\ lastCall = "collectProtocolCandidates"
  /\ tx.pulse_0.mPulseLevel # tx.pulse_1.mPulseLevel

\* the table indices of the entries of the group selected by the level of
\* pulse_0 that satisfy Matches(entry, pulse_0, pulse_1)
MatchingRows(Matches(_, _, _)) ==
  LET table == getProtocolTable(GroupOfLevel(tx.pulse_0.mPulseLevel))
  IN  {i - 1 : i \in {j \in DOMAIN table : Matches(table[j], tx.pulse_0, tx.pulse_1)}}

\* the candidate stack holds exactly the indices of `rows`, in table order
CandidatesAre(rows) ==
  /\ mProtocolCandidates.mProtocolGroupId = GroupOfLevel(tx.pulse_0.mPulseLevel)
  /\ {mProtocolCandidates.mData[k] : k \in DOMAIN mProtocolCandidates.mData} = rows
  /\ \A k \in 1..(Len(mProtocolCandidates.mData) - 1) :
        mProtocolCandidates.mData[k] < mProtocolCandidates.mData[k + 1]
  /\ mProtocolCandidates.mOverflow = 0

\* C12: for a pulse pair of opposite levels the collector pushes, in table
\* order, exactly the indices of the entries of the group selected by the
\* level of the first pulse whose sync-A range contains the first and whose
\* sync-B range contains the second duration (lower bound inclusive, upper
\* bound exclusive)
CollectorIsExact ==
  Collected => CandidatesAre(MatchingRows(SynchRangesMatch))

\* C12 as amended: as above, where an entry of the inverse group matches
\* every first pulse that is not shorter than its sync-A lower bound
CollectorIsExactUpToLongInverseSynchA ==
  Collected => CandidatesAre(MatchingRows(SynchAcquired))

\* the collector pushed several entries, one of them for a first pulse that
\* lies on the upper bound of its sync-A range
CollectedSeveralWithLongFirstPulse ==
  /\ Collected
  /\ Len(mProtocolCandidates.mData) > 1
  /\ \E k \in DOMAIN mProtocolCandidates.mData :
        LET prot == getProtocolTable(mProtocolCandidates.mProtocolGroupId)
                       [mProtocolCandidates.mData[k] + 1]
        IN  tx.pulse_0.mMicroSecDuration =
              RangeOf(prot.synchronizationPulsePair, tx.pulse_0.mPulseLevel).upperBound

(***************************************************************************)
(* SpecLongSynch: a first sync pulse beyond its sync-A range.  The          *)
(* transmitter sends a sync pair whose first pulse is stretched, either as  *)
(* the first pair a freshly constructed receiver sees (acquisition) or as   *)
(* the pair that closes a packet (classification in DATA state).            *)
(***************************************************************************)
\* factors in percent that put the first sync pulse beyond the +20 % of the
\* sync-A range
LongSynchPcts == {121, 130, 1000}

LongSynchValues == PacketValues \cup {<<0, 0, 0, 0, 0, 0>>}

AcquireScripts ==
  { << StartFrame, SynchFrame(pct, 100) >> : pct \in LongSynchPcts }

ClosingScripts ==
  { << StartFrame, PacketFrame(V), SynchFrame(pct, 100) >> :
       V \in LongSynchValues, pct \in LongSynchPcts }

InitLongSynch ==
  /\ Constructed
  /\ lastCall = "Receiver"
  /\ nEdges = 0
  /\ line = <<>>
  /\ mainPc = 0
  /\ \E S \in AllProtocols, script \in AcquireScripts \cup ClosingScripts :
        tx = [protocol |-> S, script |-> script, next |-> 1]

LongSynchSend == PacketSend

LongSynchEdge == Deliver /\ UNCHANGED tx

NextLongSynch == LongSynchSend \/ LongSynchEdge

SpecLongSynch == InitLongSynch /\ [][NextLongSynch]_vars

\* the stretched first sync pulse is too long for the sync-A range of the
\* transmitter's protocol
FirstSynchPulseTooLong ==
  LET S == tx.protocol
      edges == FrameEdges(S, tx.script[Len(tx.script)])
  IN  ~Lt32(PulseOf(edges[1]).mMicroSecDuration,
            RangeOf(Row(S).synchronizationPulsePair, LevelA(S)).upperBound)

\* acquisition: the stretched pair was the first pair of the receiver
LongSynchAcquisition ==
  tx.script \in AcquireScripts /\ FrameSent(2) /\ FirstSynchPulseTooLong

\* classification: the stretched pair closed a packet whose pairs the
\* transmitter's protocol receives as data pairs
LongSynchClosing ==
  /\ tx.script \in ClosingScripts
  /\ FrameSent(3)
  /\ FirstSynchPulseTooLong
  /\ \A i \in 1..Len(tx.script[2].bits) :
        ReceivedAsDataPair(tx.protocol, tx.script[2].bits, i)

\* the transmitter's protocol is a candidate of the receiver in DATA state
AcquiredAsOwnProtocol ==
  /\ state(Rx) = "DATA_STATE"
  /\ mProtocolCandidates.mProtocolGroupId = tx.protocol[1]
  /\ \E k \in DOMAIN mProtocolCandidates.mData :
        mProtocolCandidates.mData[k] = tx.protocol[2]

\* the packet was published for the transmitter's protocol
PublishedForOwnProtocol ==
  /\ available(Rx)
  /\ Row(tx.protocol).protocolNumber \in ReceivedProtocolSet(Rx)

\* C13: a first sync pulse longer than the sync-A upper bound of a protocol
\* is accepted as its sync-A, for normal and for inverse level protocols,
\* when a sync is acquired and when a pair is classified in DATA state
LongSynchAIsAccepted ==
  /\ LongSynchAcquisition => AcquiredAsOwnProtocol
  /\ LongSynchClosing => PublishedForOwnProtocol

\* C13 as amended: it is accepted for the inverse level protocols, in both
\* places, and rejected for the normal level protocols, in both places
LongSynchAIsAcceptedByInverseGroupOnly ==
  /\ LongSynchAcquisition =>
        (AcquiredAsOwnProtocol <=> tx.protocol[1] = INVERSE_LEVEL_PROTOCOLS)
  /\ LongSynchClosing =>
        (PublishedForOwnProtocol <=> tx.protocol[1] = INVERSE_LEVEL_PROTOCOLS)

\* a packet of an inverse level protocol was closed by a sync pair whose
\* first pulse has ten times its nominal duration, and was published
PublishedOnTenfoldSynchA ==
  /\ LongSynchClosing
  /\ tx.script[3].pctA = 1000
  /\ PublishedForOwnProtocol

\* the step is a call of the edge handler, for an edge of the transmitter
\* or for a glitch
EdgeHandled ==
  /\ lastCall' = "handleInterrupt"
  /\ nEdges' # nEdges \/ tx' # tx

\* C14: while the receiver is suspended a call of the edge handler writes
\* the last interrupt time and nothing else: the pulse ring, the candidate
\* set, the message packet, the pulse counter of the bit and the available
\* flag are unchanged
SuspendedEdgeOnlyRecordsTime ==
  [][(mSuspended /\ EdgeHandled) =>
       /\ UNCHANGED <<mData, mBegin, mSize, mProtocolCandidates,
                      mReceivedMessagePacket, mDataModePulseCount,
                      mMessageAvailable, mSuspended>>
       /\ writes' = << "mMicrosecLastInterruptTime" >>
       /\ mMicrosecLastInterruptTime' # mMicrosecLastInterruptTime]_vars

\* an edge arrived while the receiver was suspended in the middle of a bit of
\* a partly received packet
SuspendedInsidePacket ==
  /\ mSuspended
  /\ lastCall = "handleInterrupt"
  /\ state(Rx) = "DATA_STATE"
  /\ StackSize(mReceivedMessagePacket) > 0
  /\ mDataModePulseCount = 1

(***************************************************************************)
(* SpecResume: suspend and resume.  The transmitter of Spec sends sync and  *)
(* data pairs; between any two edges the main loop may call suspend (when   *)
(* the receiver is not suspended) or resume (in any state).                 *)
(***************************************************************************)
MaxResumeEdges == 16

InitResume ==
  /\ Constructed
  /\ lastCall = "Receiver"
  /\ nEdges = 0
  /\ line = <<>>
  /\ mainPc = 0
  /\ \E S \in SpecProtocols : tx = [protocol |-> S]

ResumeSend ==
  /\ line = <<>>
  /\ nEdges + DATA_PULSES_PER_BIT <= MaxResumeEdges
  /\ \/ line' = SynchEdges(tx.protocol)
     \/ \E bit \in {0, 1} : line' = BitEdges(tx.protocol, bit, 100, 100)
  /\ UNCHANGED <<rxVars, lastCall, nEdges, tx, mainPc>>

ResumeEdge == Deliver /\ UNCHANGED tx

SuspendCall ==
  /\ ~mSuspended
  /\ Assign(suspend(Rx))
  /\ lastCall' = "suspend"
  /\ UNCHANGED <<nEdges, line, tx, mainPc>>

ResumeCall ==
  /\ Assign(resume(Rx))
  /\ lastCall' = "resume"
  /\ UNCHANGED <<nEdges, line, tx, mainPc>>

NextResume == ResumeSend \/ ResumeEdge \/ SuspendCall \/ ResumeCall

SpecResume == InitResume /\ [][NextResume]_vars

\* what the claim says of the receiver after resume()
ClearedAndNotSuspended(r) ==
  /\ ~r.mSuspended
  /\ ~available(r)
  /\ StackSize(r.mProtocolCandidates) = 0
  /\ StackSize(r.mReceivedMessagePacket) = 0

\* the member writes of the call are those of reset() followed by the write
\* of the suspended flag
ClearedBeforeFlagDropped(before, after) ==
  /\ Len(after.writes) = Len(reset(before).writes) + 1
  /\ SubSeq(after.writes, 1, Len(after.writes) - 1) = reset(before).writes
  /\ after.writes[Len(after.writes)] = "mSuspended"

\* C15: after resume() has returned, from any reachable state, the receiver
\* is not suspended, no packet is available and the candidate set and the
\* message packet are empty
ResumeImpliesReset ==
  lastCall = "resume" => ClearedAndNotSuspended(Rx)

\* C15 as amended: resume() of a suspended receiver leaves it not suspended,
\* without available packet and with empty candidate set and message packet,
\* and it clears the state before it drops the suspended flag; resume() of a
\* receiver that is not suspended changes no member
ResumeOfSuspendedImpliesReset ==
  [][lastCall' = "resume" /\ line' = line =>
       IF mSuspended
       THEN ClearedAndNotSuspended(RxNext) /\ ClearedBeforeFlagDropped(Rx, RxNext)
       ELSE UNCHANGED <<mData, mBegin, mSize, mProtocolCandidates,
                        mReceivedMessagePacket, mMessageAvailable, mSuspended,
                        mDataModePulseCount, mMicrosecLastInterruptTime>>]_vars

\* resume() was called on a receiver that had been suspended inside a packet
ResumedInsidePacket ==
  /\ lastCall = "resume"
  /\ writes # <<>>
  /\ nEdges > DATA_PULSES_PER_BIT * 2
  /\ mDataModePulseCount = 1
  /\ ClearedAndNotSuspended(Rx)

\* the members of a receiver, without the log of the writes of the last call
Members(r) == [r EXCEPT !.writes = <<>>]

\* the step is a call of reset() by the main loop of Spec
ResetCalled == lastCall' = "reset" /\ tx' # tx

\* C16: a second reset() right after a reset() leaves every member as the
\* first one left it, and the edge that follows has the same effect in both
\* cases
ResetIsIdempotent ==
  [][ResetCalled =>
       /\ Members(reset(RxNext)) = Members(RxNext)
       /\ \A pinLevel \in {0, 1}, duration \in GlitchDurations \cup {350, 10850} :
             LET time == Add32(mMicrosecLastInterruptTime', U32(duration))
             IN  Members(handleInterrupt(reset(RxNext), pinLevel, time)) =
                   Members(handleInterrupt(RxNext, pinLevel, time))]_vars

\* reset() was called between the two pulses of a data pair
ResetInsideBit ==
  /\ lastCall = "reset"
  /\ Len(writes) = Len(resetProgram)
  /\ mDataModePulseCount = 1
  /\ ~available(Rx)
  /\ mSize = 0

(***************************************************************************)
(* SpecWrap: wraparound of the microsecond counter.  The first edge of the  *)
(* ideal stream of a packet arrives shortly before the counter wraps, so    *)
(* that a later edge of the packet has a smaller timestamp than the edge    *)
(* before it.                                                               *)
(***************************************************************************)
\* microseconds between the first edge and the wraparound
WrapOffsets == {1, 400, 12000, 40000}

WrapValues == PacketValues \cup {<<0, 0, 0, 0, 0, 0>>}

InitWrap ==
  /\ Constructed
  /\ lastCall = "Receiver"
  /\ nEdges = 0
  /\ mainPc = 0
  /\ \E S \in AllProtocols, V \in WrapValues, k \in WrapOffsets :
        /\ tx = [protocol |-> S, bits |-> V, start |-> <<Limb - 1, Limb - k>>]
        /\ line = IdealStream(S, V, 5000)

WrapEdge ==
  /\ line # <<>>
  /\ Assign(handleInterrupt(Rx, Head(line).pinLevel,
                            IF nEdges = 0 THEN tx.start
                            ELSE Add32(mMicrosecLastInterruptTime,
                                       U32(Head(line).duration))))
  /\ line' = Tail(line)
  /\ lastCall' = "handleInterrupt"
  /\ nEdges' = nEdges + 1
  /\ UNCHANGED <<tx, mainPc>>

NextWrap == WrapEdge

SpecWrap == InitWrap /\ [][NextWrap]_vars

\* the receiver that got the same edges with timestamps that do not wrap
WithoutWraparound ==
  Feed(NewReceiver, SubSeq(IdealStream(tx.protocol, tx.bits, 5000), 1, nEdges))

\* what the decoder has made of the edges; the pulse that ended with the
\* first edge has no defined start and leaves the ring with the third edge
Decoded(r) ==
  [mBegin |-> r.mBegin, mSize |-> r.mSize,
   mProtocolCandidates |-> r.mProtocolCandidates,
   mReceivedMessagePacket |-> r.mReceivedMessagePacket,
   mMessageAvailable |-> r.mMessageAvailable,
   mDataModePulseCount |-> r.mDataModePulseCount,
   pulses |-> IF nEdges > DATA_PULSES_PER_BIT THEN r.mData ELSE <<>>,
   value |-> receivedValue(r), bits |-> receivedBitsCount(r),
   protocols |-> receivedProtocols(r)]

\* C17: the duration of a pulse in the ring is the difference of the
\* timestamps of its edges modulo 2^32, and a packet whose timestamps wrap around is
\* classified and decoded, edge by edge, like the same packet without
\* wraparound
WraparoundDecodesAlike ==
  /\ (nEdges > 1 /\ mSize > 0) =>
        at(Rx, mSize - 1).mMicroSecDuration =
           U32(IdealStream(tx.protocol, tx.bits, 5000)[nEdges].duration)
  /\ Decoded(Rx) = Decoded(WithoutWraparound)

\* a packet whose timestamps wrapped around was published with its value
WrappedPacketPublished ==
  /\ TxDone
  /\ Lt32(mMicrosecLastInterruptTime, tx.start)
  /\ available(Rx)
  /\ receivedValue(Rx) = BitsValue(tx.bits, 1, <<0, 0>>)
  /\ 1 \in {tx.bits[i] : i \in DOMAIN tx.bits}

(***************************************************************************)
(* RxProtocolTable: the table of timing specifications that is sorted at    *)
(* compile time by typeselect::select with isRxTimingSpecLower.  A protocol *)
(* definition is the argument list of makeTimingSpec, of which the protocol *)
(* number, the clock, the tolerance, the clocks of sync pulse A and the     *)
(* level flag take part in the sorting.                                     *)
(***************************************************************************)
makeTimingSpec(protocolNumber, clock, percentTolerance, synchA, inverseLevel) ==
  [PROTOCOL_NUMBER |-> protocolNumber,
   INVERSE_LEVEL |-> inverseLevel,
   usecSynchA_lowerBound |-> ((clock * synchA) * (100 - percentTolerance)) \div 100]

\* the row makeTimingSpec::RX of a definition
RX(T) ==
  [protocolNumber |-> T.PROTOCOL_NUMBER,
   bInverseLevel |-> T.INVERSE_LEVEL,
   synchA_lowerBound |-> T.usecSynchA_lowerBound]

\* a comparison that ignores the level flag
isRxTimingSpecLowerBySynchAOnly(L, R) ==
  L.usecSynchA_lowerBound < R.usecSynchA_lowerBound

\* false < true for the level flags
isRxTimingSpecLower(L, R) ==
  IF L.INVERSE_LEVEL = R.INVERSE_LEVEL
  THEN L.usecSynchA_lowerBound < R.usecSynchA_lowerBound
  ELSE ~L.INVERSE_LEVEL /\ R.INVERSE_LEVEL

\* typeselect::impl::select<COMPARE, tuple<Ls...>, P, tuple<Ts...>> and
\* typeselect::impl::compare<COMPARE, P, tuple<Ts...>> with COMPARE =
\* isRxTimingSpecLower
RECURSIVE typeselectImplSelect(_, _, _)
RECURSIVE typeselectImplCompare(_, _)
typeselectImplCompare(P, Ts) ==
  IF Ts = <<>> THEN TRUE
  ELSE IF Len(Ts) = 1 THEN isRxTimingSpecLower(P, Ts[1])
  ELSE isRxTimingSpecLower(P, typeselectImplSelect(<<>>, Head(Ts), Tail(Ts)).selected)

typeselectImplSelect(Ls, P, Ts) ==
  IF Ts = <<>> THEN [selected |-> P, rest |-> Ls]
  ELSE IF typeselectImplCompare(P, Ts)
       THEN [selected |-> P, rest |-> Ls \o Ts]
       ELSE typeselectImplSelect(Append(Ls, P), Head(Ts), Tail(Ts))

\* typeselect::select<COMPARE, Ts...>
typeselectSelect(Ts) == typeselectImplSelect(<<>>, Head(Ts), Tail(Ts))

RECURSIVE RxProtocolTable(_)
RxProtocolTable(Ts) ==
  IF Len(Ts) = 1 THEN << RX(Ts[1]) >>
  ELSE << RX(typeselectSelect(Ts).selected) >>
       \o RxProtocolTable(typeselectSelect(Ts).rest)

(***************************************************************************)
(* SpecTable: RxProtocolTable is built once from a list of distinct         *)
(* definitions taken from the usage example of ProtocolTimingSpec.hpp, in   *)
(* any order.                                                               *)
(***************************************************************************)
MaxRows == 4

\* definitions #1, #3, #5, #7 (normal level) and #6, #10 (inverse level);
\* #3 and #5 have the same sync-A lower bound
TimingSpecs ==
  { makeTimingSpec(1, 350, 20, 1, FALSE), makeTimingSpec(3, 100, 20, 30, FALSE),
    makeTimingSpec(5, 500, 20, 6, FALSE), makeTimingSpec(7, 150, 20, 2, FALSE),
    makeTimingSpec(6, 450, 20, 1, TRUE), makeTimingSpec(10, 270, 20, 1, TRUE) }

\* the lists of n distinct elements of set
RECURSIVE ListsOf(_, _)
ListsOf(set, n) ==
  IF n = 0 THEN {<<>>}
  ELSE UNION { {<<T>> \o list : list \in ListsOf(set \ {T}, n - 1)} : T \in set }

InitTable ==
  /\ Constructed
  /\ lastCall = "Receiver"
  /\ nEdges = 0
  /\ line = <<>>
  /\ mainPc = 0
  /\ \E n \in 1..MaxRows : \E Ts \in ListsOf(TimingSpecs, n) :
        tx = [definitions |-> Ts, table |-> <<>>]

BuildTable ==
  /\ lastCall = "Receiver"
  /\ tx' = [tx EXCEPT !.table = RxProtocolTable(tx.definitions)]
  /\ lastCall' = "RxProtocolTable"
  /\ UNCHANGED <<rxVars, nEdges, line, mainPc>>

NextTable == BuildTable

SpecTable == InitTable /\ [][NextTable]_vars

TableBuilt == lastCall = "RxProtocolTable"

\* row a does not come after row b in the order of (level flag, sync-A
\* lower bound)
NotAfter(a, b) ==
  \/ ~a.bInverseLevel /\ b.bInverseLevel
  \/ a.bInverseLevel = b.bInverseLevel /\ a.synchA_lowerBound <= b.synchA_lowerBound

\* C18: the table holds exactly the rows of the input definitions, each
\* once, in ascending order of (level flag, sync-A lower bound), all normal
\* level rows before all inverse level rows
TableIsSortedInput ==
  TableBuilt =>
    /\ Len(tx.table) = Len(tx.definitions)
    /\ {tx.table[i] : i \in DOMAIN tx.table} =
         {RX(tx.definitions[i]) : i \in DOMAIN tx.definitions}
    /\ \A i \in DOMAIN tx.table, j \in DOMAIN tx.table :
          i < j => /\ NotAfter(tx.table[i], tx.table[j])
                   /\ tx.table[i].bInverseLevel => tx.table[j].bInverseLevel

\* a table of both levels was built from a list that starts with an inverse
\* level definition and ends with the lowest normal level one
SortedFromUnsortedList ==
  /\ TableBuilt
  /\ Len(tx.definitions) = MaxRows
  /\ tx.definitions[1].INVERSE_LEVEL
  /\ tx.definitions[MaxRows].PROTOCOL_NUMBER = 7
  /\ tx.table[1].protocolNumber = 7
  /\ tx.table[Len(tx.table)].bInverseLevel

\* the lists that hold the definitions of Ts in any order
Reorderings(Ts) == ListsOf({Ts[i] : i \in DOMAIN Ts}, Len(Ts))

\* C19: every permutation of the input definitions, definitions with equal
\* (level flag, sync-A lower bound) included, gives the same table
TableIsOrderIndependent ==
  TableBuilt =>
    \A Ps \in Reorderings(tx.definitions) : RxProtocolTable(Ps) = tx.table

(***************************************************************************)
(* ReceiverWithPulseTracer: a Receiver with the ring mPulseTracer of the    *)
(* most recent pulses and the flag mPulseTracerDumping.  t is the record of *)
(* these two members, mPulseTracer the record of the ring's members.        *)
(***************************************************************************)
PULSE_TRACES_COUNT == 3

\* RingBuffer<Pulse, PULSE_TRACES_COUNT>
tracerSquashedIndex(i) == (i + PULSE_TRACES_COUNT) % PULSE_TRACES_COUNT

tracerBeyondTop(ring) == tracerSquashedIndex(ring.mBegin + ring.mSize)

tracerAt(ring, index) == ring.mData[tracerSquashedIndex(ring.mBegin + index) + 1]

\* a selectNext that leaves the bottom index of a full ring where it is
tracerSelectNextKeepingBegin(ring) ==
  IF ring.mSize < PULSE_TRACES_COUNT
  THEN [ring EXCEPT !.mSize = ring.mSize + 1]
  ELSE ring

tracerSelectNext(ring) ==
  IF ring.mSize < PULSE_TRACES_COUNT
  THEN [ring EXCEPT !.mSize = ring.mSize + 1]
  ELSE [ring EXCEPT !.mBegin = tracerSquashedIndex(ring.mBegin + ring.mSize + 1)]

NewPulseTracer ==
  [mData |-> [k \in 1..PULSE_TRACES_COUNT |-> Pulse(<<0, 0>>, "UNKNOWN")],
   mBegin |-> 0, mSize |-> 0]

tracePulse(t, microSecDuration, pinLevel) ==
  IF ~t.mPulseTracerDumping
  THEN [t EXCEPT !.mPulseTracer =
          tracerSelectNext([t.mPulseTracer EXCEPT
             !.mData[tracerBeyondTop(t.mPulseTracer) + 1] =
                Pulse(microSecDuration, levelOfPulse(pinLevel))])]
  ELSE t

\* a handler that calls tracePulse after the handler of Receiver
handleInterruptTracingLast(t, r, pinLevel, microSecInterruptTime) ==
  [receiver |-> handleInterrupt(r, pinLevel, microSecInterruptTime),
   tracer |-> tracePulse(t,
                Sub32(microSecInterruptTime,
                      handleInterrupt(r, pinLevel, microSecInterruptTime).mMicrosecLastInterruptTime),
                pinLevel)]

\* ReceiverWithPulseTracer::handleInterrupt
tracerHandleInterrupt(t, r, pinLevel, microSecInterruptTime) ==
  [tracer |-> tracePulse(t, Sub32(microSecInterruptTime, r.mMicrosecLastInterruptTime),
                         pinLevel),
   receiver |-> handleInterrupt(r, pinLevel, microSecInterruptTime)]

\* PulseTracer::dumpBackward: the pulses it prints, the most recent first
dumpBackward(ring) == [i \in 1..ring.mSize |-> tracerAt(ring, ring.mSize - i)]

(***************************************************************************)
(* SpecTracer: a receiver with pulse tracer gets the edges of one packet    *)
(* while the main program calls dumpPulseTracer any number of times.  The   *)
(* dump is not masked against the interrupt: edges arrive before it, while  *)
(* it prints and after it.                                                  *)
(***************************************************************************)
TracerProtocols == {<<NORMAL_LEVEL_PROTOCOLS, 1>>, <<INVERSE_LEVEL_PROTOCOLS, 0>>}

TracerValues == {<<0, 1, 0, 0, 1, 1>>}

InitTracer ==
  /\ Constructed
  /\ lastCall = "Receiver"
  /\ nEdges = 0
  /\ mainPc = 0
  /\ \E S \in TracerProtocols, V \in TracerValues :
        /\ line = IdealStream(S, V, 5000)
        /\ tx = [protocol |-> S, stream |-> IdealStream(S, V, 5000),
                 mPulseTracer |-> NewPulseTracer, mPulseTracerDumping |-> FALSE,
                 dumped |-> <<>>]

TracerOf(t) ==
  [mPulseTracer |-> t.mPulseTracer, mPulseTracerDumping |-> t.mPulseTracerDumping]

TracerEdge ==
  /\ line # <<>>
  /\ LET handled == tracerHandleInterrupt(TracerOf(tx), Rx, Head(line).pinLevel,
                       Add32(mMicrosecLastInterruptTime, U32(Head(line).duration)))
     IN /\ Assign(handled.receiver)
        /\ tx' = [tx EXCEPT !.mPulseTracer = handled.tracer.mPulseTracer]
  /\ line' = Tail(line)
  /\ lastCall' = "handleInterrupt"
  /\ nEdges' = nEdges + 1
  /\ UNCHANGED mainPc

\* dumpPulseTracer up to the first print
DumpBegin ==
  /\ ~tx.mPulseTracerDumping
  /\ tx' = [tx EXCEPT !.mPulseTracerDumping = TRUE]
  /\ lastCall' = "dumpPulseTracer"
  /\ UNCHANGED <<rxVars, nEdges, line, mainPc>>

\* dumpPulseTracer from the prints to its end
DumpEnd ==
  /\ tx.mPulseTracerDumping
  /\ tx' = [tx EXCEPT !.dumped = dumpBackward(tx.mPulseTracer),
                      !.mPulseTracerDumping = FALSE]
  /\ lastCall' = "dumpPulseTracer"
  /\ UNCHANGED <<rxVars, nEdges, line, mainPc>>

NextTracer == TracerEdge \/ DumpBegin \/ DumpEnd

SpecTracer == InitTracer /\ [][NextTracer]_vars

\* the pulses of the tracer ring, the oldest first
TraceRecords(ring) == [i \in 1..ring.mSize |-> tracerAt(ring, i - 1)]

\* records with one more record at the end; a full ring drops the oldest
AppendedTo(records, pulse) ==
  IF Len(records) < PULSE_TRACES_COUNT THEN Append(records, pulse)
  ELSE Append(Tail(records), pulse)

TracerEdgeHandled == lastCall' = "handleInterrupt" /\ nEdges' # nEdges

\* C20: an edge interrupt of a tracer that is not dumping appends one record
\* to the tracer ring, the pulse as it is before the decoder has taken the
\* time of the edge; an edge interrupt of a dumping tracer leaves the ring
\* as it is; in both cases the receiver is the one that a receiver without
\* tracer is after the same edges
TracerRecordsUnlessDumping ==
  [][TracerEdgeHandled =>
       /\ ~tx.mPulseTracerDumping =>
             TraceRecords(tx'.mPulseTracer) =
               AppendedTo(TraceRecords(tx.mPulseTracer), PulseOf(Head(line)))
       /\ tx.mPulseTracerDumping => tx'.mPulseTracer = tx.mPulseTracer
       /\ tx'.mPulseTracerDumping = tx.mPulseTracerDumping
       /\ Members(RxNext) =
            Members(Feed(NewReceiver, SubSeq(tx.stream, 1, nEdges')))]_vars

\* the tracer ring has filled, and the last edge of the packet, which
\* publishes it, came while the tracer was dumping
PublishedWhileDumping ==
  /\ lastCall = "handleInterrupt"
  /\ line = <<>>
  /\ tx.mPulseTracerDumping
  /\ tx.mPulseTracer.mSize = PULSE_TRACES_COUNT
  /\ tx.dumped # <<>>
  /\ available(Rx)

(***************************************************************************)
(* The pulse analyzer.  A pulse is a record of mUsecDuration and            *)
(* mPulseLevel, a pulse category a record of the members of PulseCategory,  *)
(* a category collection a StackBuffer of categories.                       *)
(***************************************************************************)
SYNCH_PULSE_CATEGORIY_COUNT == 2
DATA_PULSE_CATEGORIY_COUNT == 4
ALL_PULSE_CATEGORY_COUNT == SYNCH_PULSE_CATEGORIY_COUNT + DATA_PULSE_CATEGORIY_COUNT
SYNCH_PULSES_MIN_RATIO == 8
PERCENT_DATA_PULSES_MIN_RATIO == 150

TracePulse(duration, level) == [mUsecDuration |-> duration, mPulseLevel |-> level]

\* Pulse::isDurationInRange
isDurationInRange(pulse, value, percentTolerance) ==
  /\ ~(pulse.mUsecDuration < (value * (100 - percentTolerance)) \div 100)
  /\ ~(pulse.mUsecDuration >= (value * (100 + percentTolerance)) \div 100)

\* PulseCategory(const Pulse&)
PulseCategory(pulse) ==
  [mPulse |-> pulse, usecMinDuration |-> pulse.mUsecDuration,
   usecMaxDuration |-> pulse.mUsecDuration, pulseCount |-> 1]

getWeightedAverage(category) == category.mPulse.mUsecDuration

getMinMaxAverage(category) ==
  (category.usecMaxDuration + category.usecMinDuration) \div 2

\* PulseCategory::addPulse
categoryAddPulse(category, pulse) ==
  [mPulse |->
     [mUsecDuration |->
        ((getWeightedAverage(category) * category.pulseCount) + pulse.mUsecDuration)
          \div (category.pulseCount + 1),
      mPulseLevel |-> IF category.mPulse.mPulseLevel = "UNKNOWN"
                      THEN pulse.mPulseLevel ELSE category.mPulse.mPulseLevel],
   usecMinDuration |-> IF pulse.mUsecDuration < category.usecMinDuration
                       THEN pulse.mUsecDuration ELSE category.usecMinDuration,
   usecMaxDuration |-> IF pulse.mUsecDuration > category.usecMaxDuration
                       THEN pulse.mUsecDuration ELSE category.usecMaxDuration,
   pulseCount |-> category.pulseCount + 1]

NewCollection == [mData |-> <<>>, mOverflow |-> 0]

pulseFitsInCategory(category, pulse, percentTolerance) ==
  IF pulse.mPulseLevel # category.mPulse.mPulseLevel THEN FALSE
  ELSE isDurationInRange(pulse, getWeightedAverage(category), percentTolerance)

\* the index of the first category the pulse fits in, size() if there is none
findCategoryForPulse(collection, pulse, percentTolerance) ==
  LET fits == {i \in 0..(StackSize(collection) - 1) :
                 pulseFitsInCategory(collection.mData[i + 1], pulse, percentTolerance)}
  IN IF fits = {} THEN StackSize(collection)
     ELSE CHOOSE i \in fits : \A j \in fits : i <= j

putPulseInCategory(collection, CAPACITY, categoryIndex, pulse) ==
  IF categoryIndex >= StackSize(collection)
  THEN StackPush(collection, CAPACITY, PulseCategory(pulse))
  ELSE [collection EXCEPT !.mData[categoryIndex + 1] = categoryAddPulse(@, pulse)]

\* find the category of the pulse and put the pulse into it
categorize(collection, CAPACITY, pulse, percentTolerance) ==
  putPulseInCategory(collection, CAPACITY,
                     findCategoryForPulse(collection, pulse, percentTolerance), pulse)

\* PULSE_LEVEL as a number
levelValue(category) ==
  IF category.mPulse.mPulseLevel = "UNKNOWN" THEN 0
  ELSE IF category.mPulse.mPulseLevel = "LO" THEN 1 ELSE 2

\* the number comparePulseCategoryByDuration or comparePulseCategoryByLevel
\* compares
sortKey(category, compare_) ==
  IF compare_ = "comparePulseCategoryByDuration" THEN getWeightedAverage(category)
  ELSE levelValue(category)

\* qsort in ascending order.  The order of elements that compare equal is
\* the one qsort happens to produce; it is the order of the input here.
RECURSIVE qsortInsert(_, _, _)
qsortInsert(sorted, element, compare_) ==
  IF sorted = <<>> THEN <<element>>
  ELSE IF sortKey(element, compare_) < sortKey(Head(sorted), compare_)
       THEN <<element>> \o sorted
       ELSE <<Head(sorted)>> \o qsortInsert(Tail(sorted), element, compare_)

RECURSIVE qsort(_, _)
qsort(elements, compare_) ==
  IF elements = <<>> THEN <<>>
  ELSE qsortInsert(qsort(SubSeq(elements, 1, Len(elements) - 1), compare_),
                   elements[Len(elements)], compare_)

sortByDuration(categories) == qsort(categories, "comparePulseCategoryByDuration")

sortByLevel(categories) == qsort(categories, "comparePulseCategoryByLevel")

\* sortByDuration(at(i), 2) for i = 0, 2, ...
sortPairsByDuration(categories) ==
  [i \in 1..Len(categories) |->
     IF i % 2 = 1
     THEN IF i + 1 <= Len(categories)
             /\ getWeightedAverage(categories[i + 1]) < getWeightedAverage(categories[i])
          THEN categories[i + 1] ELSE categories[i]
     ELSE IF getWeightedAverage(categories[i]) < getWeightedAverage(categories[i - 1])
          THEN categories[i - 1] ELSE categories[i]]

\* PulseCategoryCollection::build(input, percentTolerance); the test of
\* mOverflow is never true and makes TLC evaluate the collection at every
\* pass of the loop
RECURSIVE buildAllFrom(_, _, _, _)
buildAllFrom(collection, input, i, percentTolerance) ==
  IF i > Len(input) \/ collection.mOverflow < 0
  THEN [collection EXCEPT !.mData = sortByDuration(@)]
  ELSE buildAllFrom(categorize(collection, ALL_PULSE_CATEGORY_COUNT, input[i],
                               percentTolerance),
                    input, i + 1, percentTolerance)

buildAllCategories(input, percentTolerance) ==
  buildAllFrom(NewCollection, input, 1, percentTolerance)

\* one pass of the loop of PulseCategoryCollection::build(dataPulses, input,
\* percentTolerance, synchPulseCategories, usecSynchB); c holds the data
\* and the sync collection
buildStep(c, input, i, percentTolerance, usecSynchB) ==
  LET pulse == input[i]
      toSynch == [c EXCEPT !.synch = categorize(@, SYNCH_PULSE_CATEGORIY_COUNT,
                                                pulse, percentTolerance)]
      toData == [c EXCEPT !.data = categorize(@, DATA_PULSE_CATEGORIY_COUNT,
                                              pulse, percentTolerance)]
  IN IF i + 1 <= Len(input)
     THEN IF isDurationInRange(input[i + 1], usecSynchB, percentTolerance)
          THEN toSynch
          ELSE IF isDurationInRange(pulse, usecSynchB, percentTolerance)
               THEN toSynch
               ELSE toData
     ELSE IF isDurationInRange(pulse, usecSynchB, percentTolerance)
          THEN toSynch
          ELSE c

RECURSIVE buildLoop(_, _, _, _, _)
buildLoop(c, input, i, percentTolerance, usecSynchB) ==
  IF i > Len(input) \/ c.data.mOverflow + c.synch.mOverflow < 0 THEN c
  ELSE buildLoop(buildStep(c, input, i, percentTolerance, usecSynchB),
                 input, i + 1, percentTolerance, usecSynchB)

\* a pointer to a category is the sequence of that category, nullptr the
\* empty sequence
nullptr == <<>>

NewDataPulses ==
  [d0A |-> nullptr, d0B |-> nullptr, d1A |-> nullptr, d1B |-> nullptr,
   bIsInverseLevel |-> FALSE]

isValidSynchPulsePair(synch) ==
  /\ StackSize(synch) = SYNCH_PULSE_CATEGORIY_COUNT
  /\ getWeightedAverage(synch.mData[2]) >
       SYNCH_PULSES_MIN_RATIO * getWeightedAverage(synch.mData[1])

\* an assignment of the data pulses that takes the level flag from the
\* longer sync pulse
assignDataPulsesByLongSynch(synch, data) ==
  IF synch.mData[2].mPulse.mPulseLevel = "LO"
  THEN [d0A |-> <<data[1]>>, d0B |-> <<data[4]>>, d1A |-> <<data[2]>>,
        d1B |-> <<data[3]>>, bIsInverseLevel |-> TRUE]
  ELSE [d0A |-> <<data[3]>>, d0B |-> <<data[2]>>, d1A |-> <<data[4]>>,
        d1B |-> <<data[1]>>, bIsInverseLevel |-> FALSE]

\* the assignments of build to dataPulses; data is the sorted storage of
\* the data collection (at(k) is data[k + 1])
assignDataPulses(synch, data) ==
  IF synch.mData[1].mPulse.mPulseLevel = "LO"
  THEN [d0A |-> <<data[1]>>, d0B |-> <<data[4]>>, d1A |-> <<data[2]>>,
        d1B |-> <<data[3]>>, bIsInverseLevel |-> TRUE]
  ELSE [d0A |-> <<data[3]>>, d0B |-> <<data[2]>>, d1A |-> <<data[4]>>,
        d1B |-> <<data[1]>>, bIsInverseLevel |-> FALSE]

\* PulseCategoryCollection::build(dataPulses, input, percentTolerance,
\* synchPulseCategories, usecSynchB) on empty collections: the analyzer's
\* members after it
build(input, percentTolerance, usecSynchB) ==
  LET c == buildLoop([data |-> NewCollection, synch |-> NewCollection],
                     input, 1, percentTolerance, usecSynchB)
      synch == [c.synch EXCEPT !.mData = sortByDuration(@)]
      data == [c.data EXCEPT !.mData = sortByDuration(@)]
      complete == /\ StackSize(synch) = SYNCH_PULSE_CATEGORIY_COUNT
                  /\ isValidSynchPulsePair(synch)
                  /\ StackSize(data) = DATA_PULSE_CATEGORIY_COUNT
      paired == sortPairsByDuration(sortByLevel(data.mData))
  IN [mSynchPulseCategories |-> synch,
      mDataPulseCategories |-> IF complete THEN [data EXCEPT !.mData = paired] ELSE data,
      mDataPulses |-> IF complete THEN assignDataPulses(synch, paired)
                      ELSE NewDataPulses]

\* PulseAnalyzer::dedcuceProtocol with buildAllCategories and
\* buildSynchAndDataCategories
dedcuceProtocol(input, percentTolerance) ==
  LET all == buildAllCategories(input, percentTolerance)
      none == [mSynchPulseCategories |-> NewCollection,
               mDataPulseCategories |-> NewCollection,
               mDataPulses |-> NewDataPulses]
  IN [mAllPulseCategories |-> all, mPercentTolerance |-> percentTolerance]
     @@ (IF StackSize(all) > 0 /\ all.mOverflow = 0
         THEN build(input, percentTolerance,
                    getWeightedAverage(all.mData[StackSize(all)]))
         ELSE none)

\* DataPulses::checkRatio and DataPulses::isValid
checkRatio(dataPulses) ==
  /\ ~(100 * getWeightedAverage(dataPulses.d0B[1])
         < PERCENT_DATA_PULSES_MIN_RATIO * getWeightedAverage(dataPulses.d0A[1]))
  /\ ~(100 * getWeightedAverage(dataPulses.d1A[1])
         < PERCENT_DATA_PULSES_MIN_RATIO * getWeightedAverage(dataPulses.d1B[1]))

dataPulsesIsValid(dataPulses) ==
  /\ dataPulses.d0A # nullptr /\ dataPulses.d0B # nullptr
  /\ dataPulses.d1A # nullptr /\ dataPulses.d1B # nullptr
  /\ checkRatio(dataPulses)

\* scale: value in units of base, rounded to the nearest integer
scale(value, base) == (value + (base \div 2)) \div base

\* what dumpProposedTimings prints: nothing, or one line with these numbers
dumpProposedTimings(analyzer, clock) ==
  IF isValidSynchPulsePair(analyzer.mSynchPulseCategories)
     /\ dataPulsesIsValid(analyzer.mDataPulses)
  THEN << [clock |-> clock,
        percentTolerance |-> analyzer.mPercentTolerance,
        synchA |-> scale(getWeightedAverage(analyzer.mSynchPulseCategories.mData[1]), clock),
        synchB |-> scale(getWeightedAverage(analyzer.mSynchPulseCategories.mData[2]), clock),
        data0_A |-> scale(getMinMaxAverage(analyzer.mDataPulses.d0A[1]), clock),
        data0_B |-> scale(getMinMaxAverage(analyzer.mDataPulses.d0B[1]), clock),
        data1_A |-> scale(getMinMaxAverage(analyzer.mDataPulses.d1A[1]), clock),
        data1_B |-> scale(getMinMaxAverage(analyzer.mDataPulses.d1B[1]), clock),
        inverseLevel |-> analyzer.mDataPulses.bIsInverseLevel] >>
  ELSE <<>>

(***************************************************************************)
(* SpecAnalyzer: the analyzer reads a trace that a transmitter of one       *)
(* protocol definition S has produced: sync pair and data pairs of a bit    *)
(* pattern, twice, and a closing sync pair, every pulse at Pct percent of   *)
(* its duration uSec* of makeTimingSpec::TX.  dumpProposedTimings is called *)
(* with the clock of S or with the clock 10 that dump passes.               *)
(***************************************************************************)
ProtocolDefinition(protocolNumber, clock, percentTolerance, synchA, synchB, data0_A, data0_B, data1_A, data1_B, inverseLevel) ==
  [protocolNumber |-> protocolNumber, clock |-> clock,
   percentTolerance |-> percentTolerance, synchA |-> synchA, synchB |-> synchB,
   data0_A |-> data0_A, data0_B |-> data0_B, data1_A |-> data1_A,
   data1_B |-> data1_B, inverseLevel |-> inverseLevel]

ProtocolDefinitions ==
  { ProtocolDefinition(1, 350, 20, 1, 31, 1, 3, 3, 1, FALSE),
    ProtocolDefinition(2, 650, 20, 1, 10, 1, 3, 3, 1, FALSE),
    ProtocolDefinition(3, 100, 20, 30, 71, 4, 11, 9, 6, FALSE),
    ProtocolDefinition(4, 380, 20, 1, 6, 1, 3, 3, 1, FALSE),
    ProtocolDefinition(5, 500, 20, 6, 14, 1, 2, 2, 1, FALSE),
    ProtocolDefinition(6, 450, 20, 1, 23, 1, 2, 2, 1, TRUE),
    ProtocolDefinition(7, 150, 20, 2, 62, 1, 6, 6, 1, FALSE),
    ProtocolDefinition(8, 200, 20, 3, 130, 7, 16, 3, 16, FALSE),
    ProtocolDefinition(9, 365, 20, 1, 18, 3, 1, 1, 3, TRUE),
    ProtocolDefinition(10, 270, 20, 1, 36, 1, 2, 2, 1, TRUE),
    ProtocolDefinition(11, 320, 20, 1, 36, 1, 2, 2, 1, TRUE) }

AnalyzerBits == {<<0, 1>>, <<1, 0, 0>>, <<1, 1, 0, 1>>}

AnalyzerPcts == {90, 100, 115}

DumpClock == 10

\* the pulse pair of clocks a and b as the transmitter of S sends it
TracePair(S, a, b, pct) ==
  << TracePulse(((S.clock * a) * pct) \div 100, IF S.inverseLevel THEN "LO" ELSE "HI"),
     TracePulse(((S.clock * b) * pct) \div 100, IF S.inverseLevel THEN "HI" ELSE "LO") >>

RECURSIVE TraceData(_, _, _)
TraceData(S, bits, pct) ==
  IF bits = <<>> THEN <<>>
  ELSE (IF Head(bits) = 0 THEN TracePair(S, S.data0_A, S.data0_B, pct)
        ELSE TracePair(S, S.data1_A, S.data1_B, pct))
       \o TraceData(S, Tail(bits), pct)

TracePacket(S, bits, pct) ==
  TracePair(S, S.synchA, S.synchB, pct) \o TraceData(S, bits, pct)

Trace(S, bits, pct) ==
  TracePacket(S, bits, pct) \o TracePacket(S, bits, pct)
  \o TracePair(S, S.synchA, S.synchB, pct)

InitAnalyzer ==
  /\ Constructed
  /\ lastCall = "Receiver"
  /\ nEdges = 0
  /\ line = <<>>
  /\ mainPc = 0
  /\ \E S \in ProtocolDefinitions, bits \in AnalyzerBits, pct \in AnalyzerPcts :
     \E clock \in {S.clock, DumpClock} :
        tx = [definition |-> S, pct |-> pct, input |-> Trace(S, bits, pct),
              clock |-> clock, proposal |-> <<>>]

Analyze ==
  /\ lastCall = "Receiver"
  /\ tx' = [tx EXCEPT !.proposal =
              dumpProposedTimings(dedcuceProtocol(tx.input, tx.definition.percentTolerance),
                                  tx.clock)]
  /\ lastCall' = "dumpProposedTimings"
  /\ UNCHANGED <<rxVars, nEdges, line, mainPc>>

NextAnalyzer == Analyze

SpecAnalyzer == InitAnalyzer /\ [][NextAnalyzer]_vars

Analyzed == lastCall = "dumpProposedTimings"

\* the proposal has the multipliers and the level flag of the definition
ProposalIs(proposal, S) ==
  /\ proposal # <<>>
  /\ proposal[1].synchA = S.synchA /\ proposal[1].synchB = S.synchB
  /\ proposal[1].data0_A = S.data0_A /\ proposal[1].data0_B = S.data0_B
  /\ proposal[1].data1_A = S.data1_A /\ proposal[1].data1_B = S.data1_B
  /\ proposal[1].inverseLevel = S.inverseLevel

\* C21 as stated: for every trace synthesized from a definition S with each
\* pulse within the tolerance, the proposal has the six multipliers and the
\* level flag of S
AnalyzerRoundTrip == Analyzed => ProposalIs(tx.proposal, tx.definition)

\* a and b are further apart than the tolerance of either
Apart(a, b, percentTolerance) ==
  /\ ~isDurationInRange(TracePulse(a, "HI"), b, percentTolerance)
  /\ ~isDurationInRange(TracePulse(b, "HI"), a, percentTolerance)

\* the definitions the clustering separates: sync B more than 8 times sync
\* A and beyond the tolerance of every data pulse, data 0 short then long
\* and data 1 long then short by a factor of at least 1.5, the two first
\* and the two second data pulses further apart than the tolerance
Separable(S) ==
  /\ S.synchB > SYNCH_PULSES_MIN_RATIO * S.synchA
  /\ \A d \in {S.data0_A, S.data0_B, S.data1_A, S.data1_B} :
        /\ d < S.synchB
        /\ Apart(S.clock * d, S.clock * S.synchB, S.percentTolerance)
  /\ 100 * S.data0_B >= PERCENT_DATA_PULSES_MIN_RATIO * S.data0_A
  /\ 100 * S.data1_A >= PERCENT_DATA_PULSES_MIN_RATIO * S.data1_B
  /\ S.data0_A < S.data1_A
  /\ S.data1_B < S.data0_B
  /\ Apart(S.clock * S.data0_A, S.clock * S.data1_A, S.percentTolerance)
  /\ Apart(S.clock * S.data0_B, S.clock * S.data1_B, S.percentTolerance)

\* C21 amended: for a trace of nominal durations of a separable definition
\* S and a call of dumpProposedTimings with the clock of S, the proposal
\* has the six multipliers and the level flag of S
AnalyzerRoundTripOfSeparable ==
  (Analyzed /\ tx.pct = 100 /\ tx.clock = tx.definition.clock
     /\ Separable(tx.definition))
    => ProposalIs(tx.proposal, tx.definition)

\* the proposal for the inverse level definition #6 has been made from a
\* nominal trace
InverseDefinitionProposed ==
  /\ Analyzed
  /\ tx.pct = 100
  /\ tx.clock = tx.definition.clock
  /\ tx.definition.protocolNumber = 6
  /\ Separable(tx.definition)
  /\ tx.proposal # <<>>
  /\ tx.proposal[1].inverseLevel

(***************************************************************************)
(* SpecStack: a StackBuffer<int, StackCapacity> on which push, remove and   *)
(* reset are called in any order, as in testBlockingStack.  tx holds the    *)
(* stack, the argument of the last call and what the last push returned.    *)
(***************************************************************************)
StackCapacity == 3

MaxOverflow == 2

StackValues == {-2, -1, 0}

\* what StackBuffer::push returns: the result of selectNext
pushReturns(stack, CAPACITY) == StackSize(stack) < CAPACITY

InitStack ==
  /\ Constructed
  /\ lastCall = "StackBuffer"
  /\ nEdges = 0
  /\ line = <<>>
  /\ mainPc = 0
  /\ tx = [stack |-> [mData |-> <<>>, mOverflow |-> 0], arg |-> 0, returned |-> TRUE]

StackPushCall ==
  /\ tx.stack.mOverflow < MaxOverflow
  /\ \E v \in StackValues :
        tx' = [stack |-> StackPush(tx.stack, StackCapacity, v), arg |-> v,
               returned |-> pushReturns(tx.stack, StackCapacity)]
  /\ lastCall' = "push"
  /\ UNCHANGED <<rxVars, nEdges, line, mainPc>>

StackRemoveCall ==
  /\ \E i \in 0..StackCapacity :
        tx' = [tx EXCEPT !.stack = StackRemove(tx.stack, i), !.arg = i]
  /\ lastCall' = "remove"
  /\ UNCHANGED <<rxVars, nEdges, line, mainPc>>

StackResetCall ==
  /\ tx' = [tx EXCEPT !.stack = StackReset(tx.stack)]
  /\ lastCall' = "reset"
  /\ UNCHANGED <<rxVars, nEdges, line, mainPc>>

NextStack == StackPushCall \/ StackRemoveCall \/ StackResetCall

SpecStack == InitStack /\ [][NextStack]_vars

\* C22: a push onto a stack that is not full returns true, stores the value
\* at index size, keeps the elements below and the overflow counter and
\* makes size one more; a push onto a full stack returns false, keeps size
\* and elements and adds one to the overflow counter; reset makes size and
\* overflow counter 0; size never exceeds the capacity
PushIsBounded ==
  [][/\ Len(tx'.stack.mData) <= StackCapacity
     /\ (lastCall' = "push" /\ Len(tx.stack.mData) < StackCapacity) =>
           /\ tx'.returned
           /\ Len(tx'.stack.mData) = Len(tx.stack.mData) + 1
           /\ tx'.stack.mData[Len(tx.stack.mData) + 1] = tx'.arg
           /\ \A k \in 1..Len(tx.stack.mData) : tx'.stack.mData[k] = tx.stack.mData[k]
           /\ tx'.stack.mOverflow = tx.stack.mOverflow
     /\ (lastCall' = "push" /\ Len(tx.stack.mData) = StackCapacity) =>
           /\ ~tx'.returned
           /\ tx'.stack.mData = tx.stack.mData
           /\ tx'.stack.mOverflow = tx.stack.mOverflow + 1
     /\ lastCall' = "reset" =>
           Len(tx'.stack.mData) = 0 /\ tx'.stack.mOverflow = 0]_vars

\* a push onto the full stack has been refused and counted for the second
\* time
PushRefusedTwice ==
  /\ lastCall = "push"
  /\ ~tx.returned
  /\ Len(tx.stack.mData) = StackCapacity
  /\ tx.stack.mOverflow = 2

\* C23: remove(i) with i below size takes out the element at index i, moves
\* the elements above it one index down in their order, makes size one less
\* and keeps the overflow counter, so that the next push is accepted;
\* remove(i) with i at or above size changes nothing
RemoveShiftsLeft ==
  [][lastCall' = "remove" =>
       /\ tx'.arg < Len(tx.stack.mData) =>
             /\ Len(tx'.stack.mData) = Len(tx.stack.mData) - 1
             /\ \A k \in 1..Len(tx'.stack.mData) :
                   tx'.stack.mData[k] =
                     IF k <= tx'.arg THEN tx.stack.mData[k] ELSE tx.stack.mData[k + 1]
             /\ tx'.stack.mOverflow = tx.stack.mOverflow
             /\ pushReturns(tx'.stack, StackCapacity)
       /\ tx'.arg >= Len(tx.stack.mData) => tx'.stack = tx.stack]_vars

\* the middle element of a full stack that has refused a push has been
\* removed
MiddleRemovedAfterOverflow ==
  /\ lastCall = "remove"
  /\ tx.arg = 1
  /\ tx.stack.mData = <<-2, 0>>
  /\ tx.stack.mOverflow = 1

(***************************************************************************)
(* SpecRing: a RingBuffer<int, PULSE_TRACES_COUNT> on which push and reset  *)
(* are called in any order, as in testOverwritingStack.  tx holds the ring  *)
(* and the values pushed since the last reset.                              *)
(***************************************************************************)
MaxRingPushes == 5

RingValues == {-2, -1, 0}

\* RingBuffer::push
ringPush(ring, value) ==
  tracerSelectNext([ring EXCEPT !.mData[tracerBeyondTop(ring) + 1] = value])

\* RingBuffer::reset: Array::reset and mBegin = 0; the storage stays
ringReset(ring) == [ring EXCEPT !.mSize = 0, !.mBegin = 0]

InitRing ==
  /\ Constructed
  /\ lastCall = "RingBuffer"
  /\ nEdges = 0
  /\ line = <<>>
  /\ mainPc = 0
  /\ tx = [ring |-> [mData |-> [k \in 1..PULSE_TRACES_COUNT |-> 0],
                     mBegin |-> 0, mSize |-> 0],
           pushed |-> <<>>]

RingPushCall ==
  /\ Len(tx.pushed) < MaxRingPushes
  /\ \E v \in RingValues :
        tx' = [ring |-> ringPush(tx.ring, v), pushed |-> Append(tx.pushed, v)]
  /\ lastCall' = "push"
  /\ UNCHANGED <<rxVars, nEdges, line, mainPc>>

RingResetCall ==
  /\ tx' = [ring |-> ringReset(tx.ring), pushed |-> <<>>]
  /\ lastCall' = "reset"
  /\ UNCHANGED <<rxVars, nEdges, line, mainPc>>

NextRing == RingPushCall \/ RingResetCall

SpecRing == InitRing /\ [][NextRing]_vars

MinOf(a, b) == IF a < b THEN a ELSE b

\* C24: after k pushes since the last reset the size is min(k, N) and
\* at(i) is the (k - size + i + 1)-th value pushed, index 0 the oldest
RingHoldsMostRecent ==
  LET k == Len(tx.pushed)
      size == tx.ring.mSize
  IN /\ size = MinOf(k, PULSE_TRACES_COUNT)
     /\ \A i \in 0..(size - 1) : tracerAt(tx.ring, i) = tx.pushed[k - size + i + 1]

\* the full ring has dropped its two oldest values, which differ from the
\* ones it holds
RingDroppedTwoOldest ==
  /\ lastCall = "push"
  /\ Len(tx.pushed) = PULSE_TRACES_COUNT + 2
  /\ tx.ring.mBegin = 2
  /\ tx.pushed[1] = 0 /\ tx.pushed[2] = 0
  /\ tracerAt(tx.ring, 0) = -2
  /\ tracerAt(tx.ring, 1) = -1

\* C25 (SpecLong): the message packet never holds more than
\* MAX_MSG_PACKET_BITS bits, and a step that counts a bit in the overflow
\* counter starts from a full packet, leaves its bits as they are and
\* counts one
PacketHoldsAtMostMaxBits ==
  [][/\ Len(mReceivedMessagePacket.mData) <= MAX_MSG_PACKET_BITS
     /\ Len(mReceivedMessagePacket'.mData) <= MAX_MSG_PACKET_BITS
     /\ mReceivedMessagePacket'.mOverflow > mReceivedMessagePacket.mOverflow =>
           /\ Len(mReceivedMessagePacket.mData) = MAX_MSG_PACKET_BITS
           /\ mReceivedMessagePacket'.mData = mReceivedMessagePacket.mData
           /\ mReceivedMessagePacket'.mOverflow = mReceivedMessagePacket.mOverflow + 1]_vars

\* the second bit beyond a full packet has been counted and the packet is
\* not yet published
SecondBitBeyondCounted ==
  /\ lastCall = "handleInterrupt"
  /\ Len(mReceivedMessagePacket.mData) = MAX_MSG_PACKET_BITS
  /\ mReceivedMessagePacket.mOverflow = 2
  /\ ~mMessageAvailable

(***************************************************************************)
(* The size of the candidate set.  ProtocolCandidates is a                  *)
(* StackBuffer<size_t, MAX_PROTOCOL_CANDIDATES> with a protocol group; the  *)
(* collectors push the index of a table row at most once per scan, and the  *)
(* scans start on an empty stack.                                           *)
(***************************************************************************)
CandidateRows == {mProtocolCandidates.mData[k] : k \in DOMAIN mProtocolCandidates.mData}

\* C26: in every receiver state the candidates are distinct row indices of the
\* table of the candidates' protocol group, so there are at most as many
\* candidates as the table has rows and at most MAX_PROTOCOL_CANDIDATES; the
\* overflow counter holds the number of matches that were not retained, which
\* is zero for the tables of the receiver
CandidatesWithinTable ==
  LET table == getProtocolTable(mProtocolCandidates.mProtocolGroupId)
  IN  /\ StackSize(mProtocolCandidates) <= Len(table)
      /\ StackSize(mProtocolCandidates) <= MAX_PROTOCOL_CANDIDATES
      /\ Cardinality(CandidateRows) = StackSize(mProtocolCandidates)
      /\ CandidateRows \subseteq 0..(Len(table) - 1)
      /\ mProtocolCandidates.mOverflow = 0

SeveralCandidatesRetained ==
  /\ lastCall = "handleInterrupt"
  /\ StackSize(mProtocolCandidates) >= 2
  /\ mProtocolCandidates.mProtocolGroupId = INVERSE_LEVEL_PROTOCOLS
  /\ StackSize(mReceivedMessagePacket) >= 1

(***************************************************************************)
(* The classification of one pulse pair by one protocol: the body of the    *)
(* loop of Receiver::analyzePulsePair for a candidate set that holds the    *)
(* row S alone.  The first pulse has the level of the first pulse of every  *)
(* pair of S, the second pulse the opposite level.                          *)
(***************************************************************************)
\* the durations at the bounds of the six ranges of a row and one far beyond
ClassifyDurations(S) ==
  UNION { Boundaries(RangeOf(timing, level)) :
            timing \in {Row(S).synchronizationPulsePair, Row(S).logical0PulsePair,
                        Row(S).logical1PulsePair},
            level \in {"LO", "HI"} }
  \cup {10 * ToInt(RangeOf(Row(S).synchronizationPulsePair, LevelA(S)).upperBound)}

\* the receiver with the row S as its only candidate
WithCandidate(r, S) ==
  Wr(r, "mProtocolCandidates",
     StackPush(setProtocolGroup(r, S[1]).mProtocolCandidates,
               MAX_PROTOCOL_CANDIDATES, S[2]))

InitClassify ==
  /\ Constructed
  /\ lastCall = "Receiver"
  /\ nEdges = 0
  /\ line = <<>>
  /\ mainPc = 0
  /\ \E S \in AllProtocols :
       \E a \in ClassifyDurations(S), b \in ClassifyDurations(S) :
          tx = [protocol |-> S,
                firstPulse |-> Pulse(U32(a), LevelA(S)),
                secondPulse |-> Pulse(U32(b), LevelB(S)),
                result |-> <<>>, kept |-> <<>>]

Classify ==
  /\ lastCall = "Receiver"
  /\ LET analyzed == analyzePulsePair(WithCandidate(Rx, tx.protocol),
                                      tx.firstPulse, tx.secondPulse)
     IN  tx' = [tx EXCEPT !.result = <<analyzed[2]>>,
                          !.kept = <<StackSize(analyzed[1].mProtocolCandidates) = 1>>]
  /\ lastCall' = "analyzePulsePair"
  /\ UNCHANGED <<rxVars, nEdges, line, mainPc>>

NextClassify == Classify

SpecClassify == InitClassify /\ [][NextClassify]_vars

Classified == lastCall = "analyzePulsePair"

\* lower <= d < upper
Within(range, pulse) ==
  /\ ToInt(range.lowerBound) <= ToInt(pulse.mMicroSecDuration)
  /\ ToInt(pulse.mMicroSecDuration) < ToInt(range.upperBound)

\* the reference classification of the pair (a, b) by the row S; the sync-A
\* membership accepts a duration within the range or beyond its upper bound
InSyncA(S, a) ==
  ToInt(RangeOf(Row(S).synchronizationPulsePair, LevelA(S)).lowerBound)
    <= ToInt(a.mMicroSecDuration)

InA(S, timing, a) == Within(RangeOf(timing, LevelA(S)), a)
InB(S, timing, b) == Within(RangeOf(timing, LevelB(S)), b)

classify_pair(S, a, b) ==
  IF InSyncA(S, a) /\ InB(S, Row(S).synchronizationPulsePair, b) THEN "SYCH_PULSE"
  ELSE IF InA(S, Row(S).logical0PulsePair, a) /\ InB(S, Row(S).logical0PulsePair, b)
  THEN "DATA_LOGICAL_0"
  ELSE IF InA(S, Row(S).logical1PulsePair, a) /\ InB(S, Row(S).logical1PulsePair, b)
  THEN "DATA_LOGICAL_1"
  ELSE "UNKNOWN"

\* C27: for every row and every pulse pair the classification by the row is
\* the reference classification: Sync if a is in sync-A and b in sync-B, else
\* Data0 if a is in data0-A and b in data0-B, else Data1 if a is in data1-A
\* and b in data1-B, else not matched
ClassificationIsReference ==
  Classified => tx.result = <<classify_pair(tx.protocol, tx.firstPulse, tx.secondPulse)>>

\* C28: the comparison of the first pulse with the sync-A range has three
\* distinct outcomes (TOO_SHORT iff d < lower, IS_WITHIN iff lower <= d < upper,
\* TOO_LONG iff d >= upper), and a pair whose first pulse is shorter than the
\* sync-A lower bound of a row is not classified as a sync pair by that row,
\* in both protocol groups
ShortFirstPulseIsNoSynch ==
  Classified =>
    LET range == RangeOf(Row(tx.protocol).synchronizationPulsePair, LevelA(tx.protocol))
        d == tx.firstPulse.mMicroSecDuration
        outcome == compare(range, d)
    IN  /\ outcome = TOO_SHORT <=> Lt32(d, range.lowerBound)
        /\ outcome = IS_WITHIN <=> Within(range, tx.firstPulse)
        /\ outcome = TOO_LONG <=> ~Lt32(d, range.upperBound)
        /\ Lt32(d, range.lowerBound) => tx.result # <<"SYCH_PULSE">>

(***************************************************************************)
(* Receiver::analyzePulsePair on a candidate set the collector has built:   *)
(* a sync pair is collected, then pulse pairs are analyzed.  The pairs are  *)
(* the sync and data pairs of the rows of the group, the sync pairs also    *)
(* with a second pulse at the lower end of its range.                       *)
(***************************************************************************)
MaxAnalyzed == 2

AnalyzePcts == {81, 100}

PairPulses(S, timing, pctB) ==
  << Pulse(U32(Nominal(RangeOf(timing, LevelA(S)))), LevelA(S)),
     Pulse(U32((Nominal(RangeOf(timing, LevelB(S))) * pctB) \div 100), LevelB(S)) >>

SynchPairs(group) ==
  {PairPulses(S, Row(S).synchronizationPulsePair, pct) :
     S \in {T \in AllProtocols : T[1] = group}, pct \in AnalyzePcts}

DataPairs(group) ==
  UNION { {PairPulses(S, Row(S).logical0PulsePair, 100),
           PairPulses(S, Row(S).logical1PulsePair, 100)} :
          S \in {T \in AllProtocols : T[1] = group} }

InitAnalyze ==
  /\ Constructed
  /\ lastCall = "Receiver"
  /\ nEdges = 0
  /\ line = <<>>
  /\ mainPc = 0
  /\ \E group \in {NORMAL_LEVEL_PROTOCOLS, INVERSE_LEVEL_PROTOCOLS} :
       \E pair \in SynchPairs(group) :
          tx = [group |-> group, firstPulse |-> pair[1], secondPulse |-> pair[2],
                before |-> <<>>, result |-> <<>>, analyzed |-> 0]

CollectPair ==
  /\ lastCall = "Receiver"
  /\ Assign(collectProtocolCandidates(Rx, tx.firstPulse, tx.secondPulse))
  /\ lastCall' = "collectProtocolCandidates"
  /\ UNCHANGED <<nEdges, line, tx, mainPc>>

AnalyzePair ==
  /\ lastCall # "Receiver"
  /\ tx.analyzed < MaxAnalyzed
  /\ \E pair \in SynchPairs(tx.group) \cup DataPairs(tx.group) :
       LET analyzed == analyzePulsePair(Rx, pair[1], pair[2])
       IN  /\ Assign(analyzed[1])
           /\ tx' = [tx EXCEPT !.firstPulse = pair[1], !.secondPulse = pair[2],
                               !.before = mProtocolCandidates.mData,
                               !.result = <<analyzed[2]>>,
                               !.analyzed = @ + 1]
  /\ lastCall' = "analyzePulsePair"
  /\ UNCHANGED <<nEdges, line, mainPc>>

NextAnalyze == CollectPair \/ AnalyzePair

SpecAnalyze == InitAnalyze /\ [][NextAnalyze]_vars

\* what the table row `row` of the candidates' group answers to the pair
\* that was analyzed
Answer(row) ==
  LET protocol == getProtocolTable(tx.group)[row + 1]
      first == pulseToPulseTypes(tx.group, protocol, tx.firstPulse)
      second == pulseToPulseTypes(tx.group, protocol, tx.secondPulse)
  IN  IF isSynchPulsePair(first, second) THEN "SYCH_PULSE"
      ELSE IF isDataPulsePair(first, second) THEN second.mPulseTypeData
      ELSE "UNKNOWN"

Matched(row) == Answer(row) # "UNKNOWN"

\* the answer of the first candidate, from the top of `candidates` down, that
\* matched
RECURSIVE FirstMatch(_)
FirstMatch(candidates) ==
  IF candidates = <<>> THEN "UNKNOWN"
  ELSE IF Matched(candidates[Len(candidates)]) THEN Answer(candidates[Len(candidates)])
  ELSE FirstMatch(SubSeq(candidates, 1, Len(candidates) - 1))

MaxShortBits == 5

ShortPackets == {SubSeq(V, 1, n) : V \in PacketValues, n \in 0..MaxShortBits}

ShortSynchPcts == {50, 100, 130}

InitShort ==
  /\ Constructed
  /\ lastCall = "Receiver"
  /\ nEdges = 0
  /\ line = <<>>
  /\ mainPc = 0
  /\ \E S \in AllProtocols, bits \in ShortPackets,
        pctA \in ShortSynchPcts, pctB \in SynchPcts :
        tx = [protocol |-> S, bits |-> bits, synch |-> <<pctA, pctB>>, sent |-> FALSE]

ShortSend ==
  /\ ~tx.sent
  /\ line' = StartEdge(tx.protocol, 100) \o SynchEdges(tx.protocol)
               \o DataEdges(tx.protocol, tx.bits)
               \o PairEdges(tx.protocol, Row(tx.protocol).synchronizationPulsePair,
                            tx.synch[1], tx.synch[2])
  /\ tx' = [tx EXCEPT !.sent = TRUE]
  /\ UNCHANGED <<rxVars, lastCall, nEdges, mainPc>>

ShortEdge == Deliver /\ UNCHANGED tx

NextShort == ShortSend \/ ShortEdge

SpecShort == InitShort /\ [][NextShort]_vars

\* the receiver of a handleInterrupt step when the handler has pushed its pulse
Pushed == selectNext([Rx EXCEPT !.mData = mData'])

PushedFirstPulse == at(Pushed, Pushed.mSize - 2)
PushedSecondPulse == at(Pushed, Pushed.mSize - 1)

\* a step of the handler (it alone advances the time of the last interrupt)
\* that completes a pulse pair in DATA state, where the pair is a sync pair
\* for a candidate and the packet has fewer than MIN_MSG_PACKET_BITS bits
TooFewBitsSynch ==
  /\ lastCall' = "handleInterrupt"
  /\ mMicrosecLastInterruptTime' # mMicrosecLastInterruptTime
  /\ ~mSuspended
  /\ state(Rx) = "DATA_STATE"
  /\ mDataModePulseCount = 1
  /\ StackSize(mReceivedMessagePacket) < MIN_MSG_PACKET_BITS
  /\ analyzePulsePair(Pushed, PushedFirstPulse, PushedSecondPulse)[2] = "SYCH_PULSE"

\* the pair is a leading sync pair of the table row: the first pulse is not
\* shorter than the sync-A range, the second lies in the sync-B range
LeadsPacketOf(protocol, first, second) ==
  /\ first.mPulseLevel # second.mPulseLevel
  /\ ~Lt32(first.mMicroSecDuration,
           RangeOf(protocol.synchronizationPulsePair, first.mPulseLevel).lowerBound)
  /\ compare(RangeOf(protocol.synchronizationPulsePair, second.mPulseLevel),
             second.mMicroSecDuration) = IS_WITHIN

\* C30: when a pair is classified as a sync pair in DATA state with fewer than
\* MIN_MSG_PACKET_BITS bits in the packet, the message stays unavailable, the
\* packet is empty afterwards and the candidates are those of that pair alone:
\* distinct rows of the group of its first pulse that it leads a packet of,
\* and at least one (DATA state) whenever it leads a packet of some row
ShortPacketRestartsOnSynch ==
  [][TooFewBitsSynch =>
       LET table == getProtocolTable(GroupOfLevel(PushedFirstPulse.mPulseLevel))
           rows == mProtocolCandidates'.mData
       IN  /\ ~mMessageAvailable'
           /\ mReceivedMessagePacket' = [mData |-> <<>>, mOverflow |-> 0]
           /\ mDataModePulseCount' = 0
           /\ mProtocolCandidates'.mOverflow = 0
           /\ Cardinality({rows[k] : k \in DOMAIN rows}) = Len(rows)
           /\ \A k \in DOMAIN rows :
                 LeadsPacketOf(table[rows[k] + 1], PushedFirstPulse, PushedSecondPulse)
           /\ (\E i \in DOMAIN table :
                 LeadsPacketOf(table[i], PushedFirstPulse, PushedSecondPulse)) =>
                 /\ Len(rows) > 0
                 /\ mProtocolCandidates'.mProtocolGroupId =
                      GroupOfLevel(PushedFirstPulse.mPulseLevel)]_vars

ShortPacketRestarted ==
  /\ lastCall = "handleInterrupt"
  /\ tx.synch = <<100, 100>>
  /\ Len(tx.bits) = MIN_MSG_PACKET_BITS - 1
  /\ Row(tx.protocol).protocolNumber \notin {8, 9}
  /\ nEdges = 1 + DATA_PULSES_PER_BIT * (Len(tx.bits) + 2)
  /\ state(Rx) = "DATA_STATE"
  /\ StackSize(mReceivedMessagePacket) = 0
  /\ mSize = 0

(***************************************************************************)
(* SpecRace: the main loop calls reset() (resetAvailable) at any time, also *)
(* while no message is available, and suspend() and resume().  reset()      *)
(* executes the assignments of resetProgram one at a time and the edge      *)
(* handler runs to completion between any two of them.  An edge handler     *)
(* whose assertions do not hold does not return: tx.failed.                 *)
(***************************************************************************)
MaxRacePackets == 2
MaxRaceCalls == 1

RaceValues == {<<0, 1, 0, 0, 1, 1>>}

InitRace ==
  /\ Constructed
  /\ lastCall = "Receiver"
  /\ nEdges = 0
  /\ line = <<>>
  /\ mainPc = 0
  /\ \E S \in IsrProtocols, V \in RaceValues :
        tx = [protocol |-> S, bits |-> V, sent |-> 0, calls |-> 0, failed |-> FALSE]

\* the candidate set can be read: RCSWITCH_ASSERT(protocolCandidatesIndex <
\* protocols.second), the group indexes protocolGroups[], every stored
\* candidate is a row of the table of the group
candidatesAsserts(candidates) ==
  /\ candidates.mProtocolGroupId \in {NORMAL_LEVEL_PROTOCOLS, INVERSE_LEVEL_PROTOCOLS}
  /\ StackSize(candidates) <= Len(getProtocolTable(candidates.mProtocolGroupId))
  /\ \A k \in DOMAIN candidates.mData :
        candidates.mData[k] < Len(getProtocolTable(candidates.mProtocolGroupId))

\* RingBuffer::at: RCSWITCH_ASSERT(index < mSize) for size()-2 and size()-1,
\* and the assertions of collectProtocolCandidates on the pulse levels
pulsePairAsserts(r) ==
  /\ r.mSize >= DATA_PULSES_PER_BIT
  /\ at(r, r.mSize - 2).mPulseLevel # "UNKNOWN"
  /\ at(r, r.mSize - 1).mPulseLevel # "UNKNOWN"

\* the assertions on the path the handler takes once it has pushed its pulse
handlerAsserts(r) ==
  CASE state(r) = "SYNC_STATE" -> (r.mSize > 1 => pulsePairAsserts(r))
    [] state(r) = "DATA_STATE" ->
         (r.mDataModePulseCount + 1 = 2 =>
            pulsePairAsserts(r) /\ candidatesAsserts(r.mProtocolCandidates))
    [] OTHER -> TRUE

RacePushed ==
  push(Rx, U32(Head(line).duration), Head(line).pinLevel)

RaceSend ==
  /\ ~tx.failed
  /\ line = <<>>
  /\ tx.sent < MaxRacePackets
  /\ line' = SynchEdges(tx.protocol) \o DataEdges(tx.protocol, tx.bits)
  /\ tx' = [tx EXCEPT !.sent = @ + 1]
  /\ UNCHANGED <<rxVars, lastCall, nEdges, mainPc>>

RaceEdge ==
  /\ ~tx.failed
  /\ line # <<>>
  /\ mSuspended \/ handlerAsserts(RacePushed)
  /\ Deliver
  /\ UNCHANGED tx

RaceEdgeFails ==
  /\ ~tx.failed
  /\ line # <<>>
  /\ ~mSuspended
  /\ ~handlerAsserts(RacePushed)
  /\ tx' = [tx EXCEPT !.failed = TRUE]
  /\ lastCall' = "handleInterrupt"
  /\ UNCHANGED <<rxVars, nEdges, line, mainPc>>

\* the next assignment of a reset() called at any time
RaceResetStep ==
  /\ ~tx.failed
  /\ mainPc > 0 \/ tx.calls < MaxRaceCalls
  /\ Assign(resetStatement(Rx, resetProgram[mainPc + 1]))
  /\ mainPc' = IF mainPc + 1 = Len(resetProgram) THEN 0 ELSE mainPc + 1
  /\ tx' = [tx EXCEPT !.calls = IF mainPc = 0 THEN @ + 1 ELSE @]
  /\ lastCall' = "reset"
  /\ UNCHANGED <<nEdges, line>>

RaceSuspend ==
  /\ ~tx.failed
  /\ mainPc = 0
  /\ ~mSuspended
  /\ Assign(suspend(Rx))
  /\ lastCall' = "suspend"
  /\ UNCHANGED <<nEdges, line, tx, mainPc>>

\* no edge handler touches the receiver while it is suspended, so the reset()
\* of resume() is one step
RaceResume ==
  /\ ~tx.failed
  /\ mainPc = 0
  /\ mSuspended
  /\ Assign(resume(Rx))
  /\ lastCall' = "resume"
  /\ UNCHANGED <<nEdges, line, tx, mainPc>>

\* receivedProtocol(i) for every i below receivedProtocolCount(), called
\* while a message is available
RaceAccessors ==
  /\ ~tx.failed
  /\ mainPc = 0
  /\ available(Rx)
  /\ lastCall # "receivedProtocol"
  /\ tx' = [tx EXCEPT !.failed = ~candidatesAsserts(mProtocolCandidates)]
  /\ lastCall' = "receivedProtocol"
  /\ UNCHANGED <<rxVars, nEdges, line, mainPc>>

NextRace ==
  \/ RaceSend \/ RaceEdge \/ RaceEdgeFails \/ RaceResetStep
  \/ RaceSuspend \/ RaceResume \/ RaceAccessors

SpecRace == InitRace /\ [][NextRace]_vars

\* C31: in every interleaving of edge interrupts with reset() at any time,
\* suspend(), resume() and the accessors no assertion fails: the ring is
\* indexed at size-2 and size-1 only when it holds two pulses, every candidate
\* read is a row of the table of the tagged group, and no pulse of UNKNOWN
\* level reaches the collector or the classifier
AssertionsHold == ~tx.failed

\* C32: after every completed edge and main-loop call, a receiver in SYNC
\* state has counted no pulse of a bit cell, so the first pair classified
\* after the next sync acquisition is the pair that follows the sync pair
SynchStateIsAligned ==
  state(Rx) = "SYNC_STATE" => mDataModePulseCount = 0

(***************************************************************************)
(* SpecSearch: edges only.  The pin alternates, every pulse has one of the  *)
(* nominal sync and data durations of protocol #1 and of inverse protocol   *)
(* #13.  tx keeps the state before the latest edge and the pulses the two   *)
(* latest edges have ended.                                                 *)
(***************************************************************************)
MaxSearchEdges == 6

SearchDurations == {270, 350, 1050, 9720, 10850}

InitSearch ==
  /\ Constructed
  /\ lastCall = "Receiver"
  /\ nEdges = 0
  /\ line = <<>>
  /\ mainPc = 0
  /\ \E pinLevel \in {0, 1} :
        tx = [pinLevel |-> pinLevel, before |-> "SYNC_STATE", pulses |-> <<>>]

SearchEdge ==
  /\ nEdges < MaxSearchEdges
  /\ \E duration \in SearchDurations :
        /\ Assign(handleInterrupt(Rx, 1 - tx.pinLevel,
                                  Add32(mMicrosecLastInterruptTime, U32(duration))))
        /\ tx' = [pinLevel |-> 1 - tx.pinLevel,
                  before |-> state(Rx),
                  pulses |-> (IF tx.pulses = <<>> THEN <<>> ELSE <<tx.pulses[Len(tx.pulses)]>>)
                             \o <<Pulse(U32(duration), levelOfPulse(1 - tx.pinLevel))>>]
  /\ lastCall' = "handleInterrupt"
  /\ nEdges' = nEdges + 1
  /\ UNCHANGED <<line, mainPc>>

NextSearch == SearchEdge

SpecSearch == InitSearch /\ [][NextSearch]_vars

\* C33: with edges only, when the receiver was in SYNC state before an edge
\* and the pulses the two latest edges have ended lie in the sync ranges of a
\* row of the group selected by the level of the first, the receiver is in
\* DATA state after the edge
NoSynchPairSkipped ==
  /\ tx.before = "SYNC_STATE"
  /\ Len(tx.pulses) = DATA_PULSES_PER_BIT
  /\ IsSynchPair(tx.pulses[1], tx.pulses[2])
  => state(Rx) = "DATA_STATE"

\* C34: after every completed edge and main-loop call, a receiver in SYNC
\* state (no message available, no candidate) holds an empty message packet
\* with overflow count 0
SynchStateHoldsNoBits ==
  state(Rx) = "SYNC_STATE" =>
    mReceivedMessagePacket = [mData |-> <<>>, mOverflow |-> 0]

\* the faulty data pair of a packet, not its first pair, has been handled and
\* the receiver has abandoned the packet
PacketAbandoned ==
  /\ tx.script \in FaultScripts
  /\ FaultyBit >= 2
  /\ tx.next = 3
  /\ nEdges = 1 + DATA_PULSES_PER_BIT * (1 + FaultyBit)
  /\ lastCall = "handleInterrupt"
  /\ state(Rx) = "SYNC_STATE"

(***************************************************************************)
(* SpecBits: one packet of protocol S whose data pulses are all scaled by   *)
(* the factors tx.pcts, which keep every pulse within the tolerance of S:   *)
(* start edge, sync pair, the data pairs, sync pair.                        *)
(***************************************************************************)
InitBits ==
  /\ Constructed
  /\ lastCall = "Receiver"
  /\ nEdges = 0
  /\ line = <<>>
  /\ mainPc = 0
  /\ \E S \in AllProtocols, bits \in PacketValues, pctA \in SynchPcts, pctB \in SynchPcts :
        tx = [protocol |-> S, bits |-> bits, pcts |-> <<pctA, pctB>>, sent |-> FALSE]

RECURSIVE ScaledDataEdges(_, _, _)
ScaledDataEdges(S, bits, pcts) ==
  IF bits = <<>> THEN <<>>
  ELSE BitEdges(S, Head(bits), pcts[1], pcts[2]) \o ScaledDataEdges(S, Tail(bits), pcts)

BitsSend ==
  /\ ~tx.sent
  /\ line' = StartEdge(tx.protocol, 100) \o SynchEdges(tx.protocol)
               \o ScaledDataEdges(tx.protocol, tx.bits, tx.pcts)
               \o SynchEdges(tx.protocol)
  /\ tx' = [tx EXCEPT !.sent = TRUE]
  /\ UNCHANGED <<rxVars, lastCall, nEdges, mainPc>>

BitsEdge == Deliver /\ UNCHANGED tx

NextBits == BitsSend \/ BitsEdge

SpecBits == InitBits /\ [][NextBits]_vars

\* the two pulses of data pair i of the packet
SentDataPair(i) ==
  LET edges == BitEdges(tx.protocol, tx.bits[i], tx.pcts[1], tx.pcts[2])
  IN  <<PulseOf(edges[1]), PulseOf(edges[2])>>

\* C35: whenever a message is available, every protocol of the candidate set
\* classifies every data pair of the received packet as the bit that is
\* stored for it in the message packet
CandidatesAgreeOnBits ==
  available(Rx) =>
    \A k \in DOMAIN mProtocolCandidates.mData :
      \A i \in DOMAIN mReceivedMessagePacket.mData :
         classify_pair(<<mProtocolCandidates.mProtocolGroupId,
                         mProtocolCandidates.mData[k]>>,
                       SentDataPair(i)[1], SentDataPair(i)[2])
           = (IF mReceivedMessagePacket.mData[i] = 0 THEN "DATA_LOGICAL_0"
              ELSE "DATA_LOGICAL_1")

SeveralCandidatesPublished ==
  /\ available(Rx)
  /\ StackSize(mProtocolCandidates) >= 2
  /\ tx.pcts # <<100, 100>>
  /\ Len(mReceivedMessagePacket.mData) = MIN_MSG_PACKET_BITS

\* the index of the row of definition T in the built table
TableIndexOf(T) == CHOOSE i \in DOMAIN tx.table : tx.table[i] = RX(T)

\* definitions L and R are equal in the order of isRxTimingSpecLower
EqualInTableOrder(L, R) == ~isRxTimingSpecLower(L, R) /\ ~isRxTimingSpecLower(R, L)

\* C36: the sort of the table is stable: definitions that are equal on
\* (level flag, sync-A lower bound) come in the table in the relative order
\* they have in the input list
TableSortIsStable ==
  TableBuilt =>
    \A i \in DOMAIN tx.definitions, j \in DOMAIN tx.definitions :
       (i < j /\ EqualInTableOrder(tx.definitions[i], tx.definitions[j]))
          => TableIndexOf(tx.definitions[i]) < TableIndexOf(tx.definitions[j])

(***************************************************************************)
(* SpecRanges: makeTimingSpec computes the row RX of one protocol           *)
(* definition D; clock, tolerance and the numbers of clocks are taken from  *)
(* small sets that hold 0.                                                  *)
(***************************************************************************)
\* {lowerBound, upperBound} of a pulse of uSec microseconds
makeTimingSpecRange(uSec, percentTolerance) ==
  [lowerBound |-> (uSec * (100 - percentTolerance)) \div 100,
   upperBound |-> (uSec * (100 + percentTolerance)) \div 100]

\* makeTimingSpec<...>::RX
makeTimingSpecRX(D) ==
  [protocolNumber |-> D.protocolNumber,
   bInverseLevel |-> D.inverseLevel,
   synchronizationPulsePair |->
     [durationA |-> makeTimingSpecRange(D.clock * D.synchA, D.percentTolerance),
      durationB |-> makeTimingSpecRange(D.clock * D.synchB, D.percentTolerance)],
   data0pulsePair |->
     [durationA |-> makeTimingSpecRange(D.clock * D.data0_A, D.percentTolerance),
      durationB |-> makeTimingSpecRange(D.clock * D.data0_B, D.percentTolerance)],
   data1pulsePair |->
     [durationA |-> makeTimingSpecRange(D.clock * D.data1_A, D.percentTolerance),
      durationB |-> makeTimingSpecRange(D.clock * D.data1_B, D.percentTolerance)]]

RangeDefinitions ==
  { ProtocolDefinition(1, clock, percentTolerance, synchA, synchB, data0_A, 3, 3, 1, inverseLevel) :
      clock \in {1, 350}, percentTolerance \in {0, 20, 100}, synchA \in {0, 1, 2},
      synchB \in {0, 31}, data0_A \in {0, 1}, inverseLevel \in BOOLEAN }

InitRanges ==
  /\ Constructed
  /\ lastCall = "Receiver"
  /\ nEdges = 0
  /\ line = <<>>
  /\ mainPc = 0
  /\ \E D \in RangeDefinitions : tx = [definition |-> D, table |-> <<>>]

\* RxProtocolTable<makeTimingSpec<...>> of the one definition
BuildRanges ==
  /\ lastCall = "Receiver"
  /\ tx' = [tx EXCEPT !.table = << makeTimingSpecRX(tx.definition) >>]
  /\ lastCall' = "RxProtocolTable"
  /\ UNCHANGED <<rxVars, nEdges, line, mainPc>>

NextRanges == BuildRanges

SpecRanges == InitRanges /\ [][NextRanges]_vars

RangesOfRow(row) ==
  { row.synchronizationPulsePair.durationA, row.synchronizationPulsePair.durationB,
    row.data0pulsePair.durationA, row.data0pulsePair.durationB,
    row.data1pulsePair.durationA, row.data1pulsePair.durationB }

\* C37: every range of every row of a constructed table has its lower
\* bound below its upper bound; a definition that would give a range with
\* lower >= upper gets no row
TableRangesAreProper ==
  \A i \in DOMAIN tx.table :
     \A range \in RangesOfRow(tx.table[i]) : range.lowerBound < range.upperBound

(***************************************************************************)
(* SpecScan: the tables of Protocol.cpp, built with MakeProtocol, and the   *)
(* tables of RcSwitch.cpp, each scanned once for a pulse pair with the scan *)
(* of the collectors of RcSwitch.cpp that returns at the first row whose    *)
(* first sync pulse has a lower bound above the first pulse.                *)
(***************************************************************************)
\* MakeProtocol<...>::VALUE of Protocol.hpp; durationA is the first pulse
MakeProtocol(protocolNumber, percentTolerance, clock, synchA, synchB, data0_A, data0_B, data1_A, data1_B) ==
  LET range(clocks) ==
        [lowerBound |-> ((clock * clocks) * (100 - percentTolerance)) \div 100,
         upperBound |-> ((clock * clocks) * (100 + percentTolerance)) \div 100]
  IN  [protocolNumber |-> protocolNumber,
       synchronizationPulsePair |-> [durationA |-> range(synchA), durationB |-> range(synchB)],
       logical0PulsePair |-> [durationA |-> range(data0_A), durationB |-> range(data0_B)],
       logical1PulsePair |-> [durationA |-> range(data1_A), durationB |-> range(data1_B)]]

\* normalLevelProtocolsTable of Protocol.cpp
normalLevelProtocolsTableOfProtocolCpp == <<
  MakeProtocol( 7, 20, 150,  2,  62, 1,  6, 6,  1),
  MakeProtocol( 1, 20, 350,  1,  31, 1,  3, 3,  1),
  MakeProtocol( 4, 20, 380,  1,   6, 1,  3, 3,  1),
  MakeProtocol( 8, 20, 200,  3, 130, 7, 16, 3, 16),
  MakeProtocol( 2, 20, 650,  1,  10, 1,  3, 3,  1),
  MakeProtocol( 5, 20, 500,  6,  14, 1,  2, 2,  1),
  MakeProtocol( 3, 20, 100, 30,  71, 4, 11, 9,  6)
>>

\* inverseLevelProtocolsTable of Protocol.cpp
inverseLevelProtocolsTableOfProtocolCpp == <<
  MakeProtocol(12, 20, 320, 1, 36, 1, 2, 2, 1),
  MakeProtocol(11, 20, 270, 1, 36, 1, 2, 2, 1),
  MakeProtocol(10, 20, 365, 1, 18, 3, 1, 1, 3),
  MakeProtocol( 6, 20, 450, 1, 23, 1, 2, 2, 1)
>>

\* a row of Protocol.cpp with its pulses named by their level, as the rows
\* of RcSwitch.cpp name them: a normal level pair is (high, low), an
\* inverse level pair is (low, high)
RowByLevels(protocolGroupId, value) ==
  LET byLevels(pair) ==
        IF protocolGroupId = NORMAL_LEVEL_PROTOCOLS
        THEN << <<pair.durationB.lowerBound, pair.durationB.upperBound>>,
                <<pair.durationA.lowerBound, pair.durationA.upperBound>> >>
        ELSE << <<pair.durationA.lowerBound, pair.durationA.upperBound>>,
                <<pair.durationB.lowerBound, pair.durationB.upperBound>> >>
  IN  Protocol(value.protocolNumber, byLevels(value.synchronizationPulsePair),
               byLevels(value.logical0PulsePair), byLevels(value.logical1PulsePair))

ScannedFiles == {"RcSwitch.cpp", "Protocol.cpp"}

\* the table of a protocol group in a file
ScannedTable(file, protocolGroupId) ==
  IF file = "RcSwitch.cpp" THEN getProtocolTable(protocolGroupId)
  ELSE LET table == IF protocolGroupId = NORMAL_LEVEL_PROTOCOLS
                    THEN normalLevelProtocolsTableOfProtocolCpp
                    ELSE inverseLevelProtocolsTableOfProtocolCpp
       IN  [i \in DOMAIN table |-> RowByLevels(protocolGroupId, table[i])]

\* the range of the first (A) and of the second (B) sync pulse of a row
SynchA(protocolGroupId, prot) ==
  RangeOf(prot.synchronizationPulsePair, LevelA(<<protocolGroupId, 0>>))
SynchB(protocolGroupId, prot) ==
  RangeOf(prot.synchronizationPulsePair, LevelB(<<protocolGroupId, 0>>))

\* the loops of collectNormalLevelProtocolCandidates and of
\* collectInverseLevelProtocolCandidates over `table`: the indices pushed
RECURSIVE scanFrom(_, _, _, _, _)
scanFrom(protocolGroupId, table, i, pulse_0, pulse_1) ==
  IF i >= Len(table) THEN <<>>
  ELSE LET prot == table[i + 1]
       IN  IF protocolGroupId = NORMAL_LEVEL_PROTOCOLS
           THEN IF normalScanStops(prot, pulse_0) THEN <<>>
                ELSE (IF normalSynchMatches(prot, pulse_0, pulse_1) THEN <<i>> ELSE <<>>)
                     \o scanFrom(protocolGroupId, table, i + 1, pulse_0, pulse_1)
           ELSE IF inverseScanStops(prot, pulse_0) THEN <<>>
                ELSE (IF inverseSynchMatches(prot, pulse_0, pulse_1) THEN <<i>> ELSE <<>>)
                     \o scanFrom(protocolGroupId, table, i + 1, pulse_0, pulse_1)

\* durations at and next to the bounds of a set of ranges
ScanDurations(ranges) ==
  UNION { {ToInt(range.lowerBound) - 1, ToInt(range.lowerBound),
           Nominal(range), ToInt(range.upperBound) - 1} : range \in ranges }

InitScan ==
  /\ Constructed
  /\ lastCall = "Receiver"
  /\ nEdges = 0
  /\ line = <<>>
  /\ mainPc = 0
  /\ \E file \in ScannedFiles, protocolGroupId \in {NORMAL_LEVEL_PROTOCOLS, INVERSE_LEVEL_PROTOCOLS} :
       LET table == ScannedTable(file, protocolGroupId)
       IN  \E first \in ScanDurations({SynchA(protocolGroupId, table[i]) : i \in DOMAIN table}),
              second \in ScanDurations({SynchB(protocolGroupId, table[i]) : i \in DOMAIN table}) :
             tx = [file |-> file, protocolGroupId |-> protocolGroupId,
                   first |-> first, second |-> second, scanned |-> FALSE, found |-> <<>>]

ScanTable ==
  /\ ~tx.scanned
  /\ tx' = [tx EXCEPT !.scanned = TRUE,
                      !.found = scanFrom(tx.protocolGroupId,
                                         ScannedTable(tx.file, tx.protocolGroupId), 0,
                                         [mMicroSecDuration |-> U32(tx.first)],
                                         [mMicroSecDuration |-> U32(tx.second)])]
  /\ lastCall' = "collectProtocolCandidates"
  /\ UNCHANGED <<rxVars, nEdges, line, mainPc>>

NextScan == ScanTable

SpecScan == InitScan /\ [][NextScan]_vars

\* the table is in ascending order of the lower bound of the first sync pulse
IsAscendingBySynchA(protocolGroupId, table) ==
  \A i \in DOMAIN table, j \in DOMAIN table :
     i < j => ToInt(SynchA(protocolGroupId, table[i]).lowerBound)
                <= ToInt(SynchA(protocolGroupId, table[j]).lowerBound)

\* the rows of the table whose sync ranges hold the two pulses
RowsHoldingPair(protocolGroupId, table, first, second) ==
  { i \in 0..(Len(table) - 1) :
      /\ ToInt(SynchA(protocolGroupId, table[i + 1]).lowerBound) <= first
      /\ first < ToInt(SynchA(protocolGroupId, table[i + 1]).upperBound)
      /\ ToInt(SynchB(protocolGroupId, table[i + 1]).lowerBound) <= second
      /\ second < ToInt(SynchB(protocolGroupId, table[i + 1]).upperBound) }

\* C38: each hand-written table of RcSwitch.cpp and of Protocol.cpp is in
\* ascending order of the lower bound of the first sync pulse, and the scan
\* with the early return finds every row that matches the sync pair
SortedTablesAreScannedCompletely ==
  LET table == ScannedTable(tx.file, tx.protocolGroupId)
  IN  /\ IsAscendingBySynchA(tx.protocolGroupId, table)
      /\ tx.scanned =>
           RowsHoldingPair(tx.protocolGroupId, table, tx.first, tx.second)
             \subseteq {tx.found[k] : k \in DOMAIN tx.found}

(***************************************************************************)
(* SpecValidate: the analyzer reads the trace of a transmitter (as in       *)
(* SpecAnalyzer; two further definitions have a sync B of 8 and of 9 times  *)
(* sync A), a trace of pulses of about one duration, of pulses of seven     *)
(* durations or of three kinds of data pairs, and dump is called.           *)
(* tx.analyzer holds the members                                            *)
(* of the PulseAnalyzer after dedcuceProtocol, tx.proposal what             *)
(* dumpProposedTimings prints for the clock 10.                             *)
(***************************************************************************)
ValidateDefinitions ==
  ProtocolDefinitions
  \cup { ProtocolDefinition(12, 100, 20, 1, 8, 1, 3, 3, 1, FALSE),
         ProtocolDefinition(14, 100, 20, 1, 9, 1, 3, 3, 1, TRUE) }

\* pulses of alternating level with the given durations
RECURSIVE TraceOf(_, _)
TraceOf(durations, level) ==
  IF durations = <<>> THEN <<>>
  ELSE << TracePulse(Head(durations), level) >>
       \o TraceOf(Tail(durations), IF level = "HI" THEN "LO" ELSE "HI")

\* traces without a long pulse, and traces of seven durations that are
\* further apart than the tolerance
NoiseTraces ==
  { TraceOf(<<300, 330, 310, 290, 320, 300, 310, 330>>, "HI"),
    TraceOf(<<300, 900, 310, 880, 320, 910>>, "LO"),
    TraceOf(<<100, 200, 400, 800, 1600, 3200, 6400, 100, 200>>, "HI"),
    TraceOf(<<100, 200, 400, 800, 1600, 3200, 6400, 12800>>, "LO") }

\* traces of a transmitter that sends three kinds of pulse pairs after the
\* sync pair (first pulse of 100, 300 or 600 us, second pulse of 900 us),
\* twice, and a closing sync pair
ThreeSymbolTraces ==
  { TraceOf(<<100, 9000, 100, 900, 300, 900, 600, 900, 100, 900,
              100, 9000, 600, 900, 300, 900, 100, 900, 100, 9000>>, level) :
      level \in {"HI", "LO"} }

InitValidate ==
  /\ Constructed
  /\ lastCall = "Receiver"
  /\ nEdges = 0
  /\ line = <<>>
  /\ mainPc = 0
  /\ \/ \E S \in ValidateDefinitions, bits \in AnalyzerBits, pct \in AnalyzerPcts :
          tx = [percentTolerance |-> S.percentTolerance, input |-> Trace(S, bits, pct),
                analyzer |-> <<>>, proposal |-> <<>>]
     \/ \E input \in NoiseTraces \cup ThreeSymbolTraces, percentTolerance \in {10, 20} :
          tx = [percentTolerance |-> percentTolerance, input |-> input,
                analyzer |-> <<>>, proposal |-> <<>>]

\* dedcuceProtocol and dump, which calls dumpProposedTimings(stream, 10)
\* if bOk
Validate ==
  /\ lastCall = "Receiver"
  /\ LET analyzer == dedcuceProtocol(tx.input, tx.percentTolerance)
     IN  tx' = [tx EXCEPT !.analyzer = << analyzer >>,
                          !.proposal = dumpProposedTimings(analyzer, DumpClock)]
  /\ lastCall' = "dump"
  /\ UNCHANGED <<rxVars, nEdges, line, mainPc>>

NextValidate == Validate

SpecValidate == InitValidate /\ [][NextValidate]_vars

Validated == lastCall = "dump"

\* bOk of dump is false whatever isAtTheEdge returns: its last conjunct
\* mDataPulses.isValid() is false, so dump prints "Protocol detection failed"
detectionFailed(analyzer) == ~dataPulsesIsValid(analyzer.mDataPulses)

\* C39: the sync pair is accepted if and only if exactly two sync clusters
\* were found and the mean of the longer is at least 8 times the mean of
\* the shorter; otherwise the failure diagnostic is printed and no proposal
SynchAcceptedFromRatio8 ==
  Validated =>
    LET analyzer == tx.analyzer[1]
        synch == analyzer.mSynchPulseCategories
        accepted == isValidSynchPulsePair(synch)
    IN  /\ accepted <=>
             /\ StackSize(synch) = SYNCH_PULSE_CATEGORIY_COUNT
             /\ getWeightedAverage(synch.mData[2])
                  >= SYNCH_PULSES_MIN_RATIO * getWeightedAverage(synch.mData[1])
        /\ ~accepted => (detectionFailed(analyzer) /\ tx.proposal = <<>>)

\* the level opposite to `level`
oppositeLevel(level) == IF level = "HI" THEN "LO" ELSE "HI"

\* C40: a proposal is emitted only if exactly four data clusters were
\* found, two of each level, with a ratio long/short of at least 1.5 in
\* each data pair; in every proposal data-0 is (short A, long B), data-1 is
\* (long A, short B), the A clusters have the level of sync A and the B
\* clusters the opposite level
ProposalFromTwoClustersPerLevel ==
  (Validated /\ tx.proposal # <<>>) =>
    LET analyzer == tx.analyzer[1]
        data == analyzer.mDataPulseCategories
        levelA == analyzer.mSynchPulseCategories.mData[1].mPulse.mPulseLevel
        d0A == analyzer.mDataPulses.d0A[1]
        d0B == analyzer.mDataPulses.d0B[1]
        d1A == analyzer.mDataPulses.d1A[1]
        d1B == analyzer.mDataPulses.d1B[1]
    IN  /\ StackSize(data) = DATA_PULSE_CATEGORIY_COUNT
        /\ \A level \in {"LO", "HI"} :
              Cardinality({i \in DOMAIN data.mData :
                             data.mData[i].mPulse.mPulseLevel = level}) = 2
        /\ {d0A, d0B, d1A, d1B} = {data.mData[i] : i \in DOMAIN data.mData}
        /\ d0A.mPulse.mPulseLevel = levelA /\ d1A.mPulse.mPulseLevel = levelA
        /\ d0B.mPulse.mPulseLevel = oppositeLevel(levelA)
        /\ d1B.mPulse.mPulseLevel = oppositeLevel(levelA)
        /\ getWeightedAverage(d0A) <= getWeightedAverage(d1A)
        /\ getWeightedAverage(d1B) <= getWeightedAverage(d0B)
        /\ 100 * getWeightedAverage(d0B)
             >= PERCENT_DATA_PULSES_MIN_RATIO * getWeightedAverage(d0A)
        /\ 100 * getWeightedAverage(d1A)
             >= PERCENT_DATA_PULSES_MIN_RATIO * getWeightedAverage(d1B)

====
